---------------------------- MODULE Spec2Model ----------------------------
(***************************************************************************)
(* Model of kafun-condition-navi (src/unnamed/part_000, the full page, and *)
(* src/src/app/page.tsx, the compact page with the same scoring code).     *)
(*                                                                         *)
(* Numbers.  The source computes with JavaScript doubles.  The model uses  *)
(* decimal fixed point:                                                    *)
(*   - weather readings (temperature, humidity, wind, precipitation, pm10, *)
(*     pm25) are integers counting tenths: 20.0 degrees is 200;            *)
(*   - the running totals of estimateRisk and estimatePollenTypeScore are  *)
(*     integers counting thousandths: 75.9 is 75900;                       *)
(*   - pollenSuitability and the month scale count hundredths, the         *)
(*     effective suitability and the blended map score ten-thousandths.    *)
(* Math.round rounds a half up.  A double sum can land one unit in the     *)
(* last place under an exact half (10 - 5.4 + 5.8 + 3.6 + 0.5 evaluates to *)
(* 14.499999999999998) and Math.round then rounds it down.  The inputs of  *)
(* the model's input sets where the source's double evaluation does so are *)
(* listed in the *BelowHalf sets, so that on the model's inputs every      *)
(* operator returns what the source returns.                               *)
(***************************************************************************)
EXTENDS Integers, Sequences, FiniteSets, TLC

VARIABLES
    args,       \* the arguments of the last call, or the responses a load received
    result,     \* pure-function specifications: <<>> before the call, <<value>> after
    month,      \* new Date().getMonth() + 1 of the running page
    weather,    \* useState weather: <<>> is null, <<snapshot>> otherwise
    todayRisk,  \* useState todayRisk: <<>> is null, <<RiskResult>> otherwise
    forecast,   \* useState forecast: sequence of ForecastDay
    isLoading,  \* useState isLoading
    error,      \* useState error: "none" is null
    riskInFlight, \* loadRisk calls that have started and not settled
    mapRisks,   \* useState mapRisks: sequence of CityRiskPoint
    mapLoading, \* useState mapLoading
    mapError,   \* useState mapError: "none" is null
    activeMapCityId, \* useState activeMapCityId: "none" is null
    mapInFlight, \* loadMapRisk calls that have started and not settled
    mapUpdatedAt, \* useState mapUpdatedAt: "none" is null, else the time of the load
    selectedId, \* useState selectedId
    riskRequests, \* the loadRisk calls made, oldest first: location and promise status
    logs,       \* useState logs, as of the last render: a JSON value
    actions,    \* useState actions, as of the last render: key -> value
    queuedLogs, \* a setLogs update not yet rendered: <<>> or <<JSON value>>
    queuedActions, \* a setActions update not yet rendered: <<>> or <<key -> value>>
    storedLogs, \* localStorage item kafun-symptom-log-v1
    storedActions, \* localStorage item kafun-action-check-v1
    phase,      \* "rendered" (first render done, effects not run), "mounted", "crashed"
    symptomSeverity, \* useState symptomSeverity
    tookMedicine, \* useState tookMedicine
    memo,       \* useState memo: a sequence of characters
    today,      \* the day toJstDateString(new Date()) names, as a day number
    submittedDates, \* history: the dates submitLog has been called for
    customLocation, \* useState customLocation: <<>> is null, <<LocationOption>> otherwise
    geoLoading, \* useState geoLoading
    geoRequests, \* history: the getCurrentPosition calls made
    hasGeolocation, \* whether the browser has navigator.geolocation
    mapResponses \* the city requests of the running map load that have settled,
                 \* in the order they settled

vars == <<args, result, month, weather, todayRisk, forecast, isLoading, error,
          riskInFlight, mapRisks, mapLoading, mapError, activeMapCityId, mapInFlight,
          mapUpdatedAt, selectedId, riskRequests, logs, actions, queuedLogs,
          queuedActions, storedLogs, storedActions, phase, symptomSeverity,
          tookMedicine, memo, today, submittedDates, customLocation, geoLoading,
          geoRequests, hasGeolocation, mapResponses>>

\* The symptom log, the checklist, the form and the two stored records
storeVars == <<logs, actions, queuedLogs, queuedActions, storedLogs, storedActions,
               phase, symptomSeverity, tookMedicine, memo, today, submittedDates>>

\* The custom location and the geolocation requests
geoVars == <<customLocation, geoLoading, geoRequests, hasGeolocation>>

\* The location selection and the loadRisk calls made for it
selectVars == <<selectedId, riskRequests, geoVars>>

appVars == <<month, weather, todayRisk, forecast, isLoading, error,
             riskInFlight, mapRisks, mapLoading, mapError, activeMapCityId, mapInFlight,
             mapUpdatedAt, mapResponses, selectVars, storeVars>>

-----------------------------------------------------------------------------
(* Scalar utilities *)

Min2(a, b) == IF a <= b THEN a ELSE b

Max2(a, b) == IF a >= b THEN a ELSE b

Abs(x) == IF x < 0 THEN -x ELSE x

\* clamp(value, min, max) = Math.min(max, Math.max(min, value))
clamp(value, min, max) == Min2(max, Max2(min, value))

\* Mutant: truncation (Math.floor) in place of Math.round
RoundTruncating(value, unit) == value \div unit

\* Math.round of value/unit for an exact value: floor(value/unit + 1/2)
Round(value, unit) == (2 * value + unit) \div (2 * unit)

\* Math.round of a double that lies just under value/unit, an exact half
RoundBelowHalf(value, unit) == value \div unit

monthList == 1..12

-----------------------------------------------------------------------------
(* Risk scoring *)

riskLevel(score) ==
    IF score >= 75 THEN "highest"
    ELSE IF score >= 55 THEN "high"
    ELSE IF score >= 35 THEN "elevated"
    ELSE "low"

riskAdvice(level) ==
    IF level = "highest" THEN "advice_highest"
    ELSE IF level = "high" THEN "advice_high"
    ELSE IF level = "elevated" THEN "advice_elevated"
    ELSE "advice_low"

seasonalBase(m) ==
    IF m >= 2 /\ m <= 4 THEN 48
    ELSE IF m = 5 THEN 36
    ELSE IF m >= 6 /\ m <= 9 THEN 16
    ELSE 10

\* Mutant: the lower clamp bound of the wind term dropped
windContributionNoFloor(wind) == Min2(20000, (wind - 20) * 290)

\* (wind - 2) * 2.9 clamped to [0, 20], in thousandths
windContribution(wind) == clamp((wind - 20) * 290, 0, 20000)

\* Mutant: the rain penalty applied only above 1 mm of precipitation
riskTermsRainAboveOne(input) ==
    << seasonalBase(input.month) * 1000,
       clamp((input.temperature - 120) * 180, -6000, 22000),
       windContribution(input.wind),
       clamp((480 - input.humidity) * 60, 0, 15000),
       clamp((input.pm25 - 150) * 40, 0, 9000),
       clamp((input.pm10 - 300) * 25, 0, 8000),
       IF input.precipitation > 10 THEN 16000 ELSE 0,
       IF input.humidity >= 700 THEN 6000 ELSE 0 >>

\* The terms estimateRisk sums, in the order it sums them, in thousandths:
\* seasonal base, temperature, wind, dryness, pm25, pm10, and the two
\* penalties it subtracts (rain, humidity >= 70).
riskTerms(input) ==
    << seasonalBase(input.month) * 1000,
       clamp((input.temperature - 120) * 180, -6000, 22000),
       windContribution(input.wind),
       clamp((480 - input.humidity) * 60, 0, 15000),
       clamp((input.pm25 - 150) * 40, 0, 9000),
       clamp((input.pm10 - 300) * 25, 0, 8000),
       IF input.precipitation > 0 THEN 16000 ELSE 0,
       IF input.humidity >= 700 THEN 6000 ELSE 0 >>

\* The value of `score` when estimateRisk reaches its final clamp, in thousandths
runningTotal(input) ==
    LET t == riskTerms(input)
    IN  t[1] + t[2] + t[3] + t[4] + t[5] + t[6] - t[7] - t[8]

\* Term sequences whose sum is an exact half and whose double evaluation, in
\* the source's order of additions, is the double just under it.
RiskSumsBelowHalf ==
    { <<10000, -5400, 5800, 3600, 0, 500, 0, 0>>,
      <<16000, 14400, 5800, 4800, 0, 500, 0, 0>>,
      <<16000, 14400, 5800, 4800, 0, 500, 16000, 0>>,
      <<16000, 14400, 5800, 4800, 9000, 500, 0, 0>>,
      <<16000, 14400, 5800, 4800, 9000, 500, 16000, 0>>,
      <<36000, 14400, 5800, 4800, 0, 500, 0, 0>>,
      <<36000, 14400, 5800, 4800, 0, 500, 16000, 0>> }

\* Mutant: the final clamp to [0, 100] dropped
normalizeRiskNoClamp(input) == Round(runningTotal(input), 1000)

\* Math.round(clamp(score, 0, 100))
normalizeRisk(input) ==
    LET clamped == clamp(runningTotal(input), 0, 100000)
    IN  IF riskTerms(input) \in RiskSumsBelowHalf
        THEN RoundBelowHalf(clamped, 1000)
        ELSE Round(clamped, 1000)

\* input: [month, temperature, humidity, wind, precipitation, pm10, pm25];
\* month is input.date.getMonth() + 1.
estimateRisk(input) ==
    LET normalized == normalizeRisk(input)
        level == riskLevel(normalized)
    IN  [score |-> normalized, level |-> level, advice |-> riskAdvice(level)]

-----------------------------------------------------------------------------
(* Pollen types *)

\* pollenCatalog, in declaration order; seasonMonths as the set of its elements
pollenCatalog ==
    << [id |-> "cedar",   seasonMonths |-> {2, 3, 4},       peakMonths |-> {2, 3}],
       [id |-> "cypress", seasonMonths |-> {3, 4, 5},       peakMonths |-> {4}],
       [id |-> "grass",   seasonMonths |-> {4, 5, 6, 7, 8}, peakMonths |-> {5, 6}],
       [id |-> "ragweed", seasonMonths |-> {8, 9, 10},      peakMonths |-> {9}],
       [id |-> "birch",   seasonMonths |-> {4, 5, 6},       peakMonths |-> {5}] >>

\* Mutant: the distance taken along the calendar, December and January apart
monthDistanceNoWrap(a, b) == Abs(a - b)

monthDistance(a, b) ==
    LET distance == Abs(a - b)
    IN  Min2(distance, 12 - distance)

\* In hundredths: 100 is 1, 44 is 0.44, 20 is 0.2
seasonalFactor(currentMonth, seasonMonths) ==
    IF currentMonth \in seasonMonths THEN 100
    ELSE IF \E m \in seasonMonths : monthDistance(m, currentMonth) = 1 THEN 44
    ELSE IF \E m \in seasonMonths : monthDistance(m, currentMonth) = 2 THEN 20
    ELSE 0

\* Mutant: a missing snapshot read as no wind boost and no dryness boost
estimatePollenTypeScoreNoFallback(type, currentMonth, w, overallRiskScore) ==
    LET season == seasonalFactor(currentMonth, type.seasonMonths)
        windBoost == IF w # <<>> THEN clamp((w[1].wind - 20) * 600, 0, 18000) ELSE 0
        dryBoost == IF w # <<>> THEN clamp((500 - w[1].humidity) * 35, 0, 12000) ELSE 0
        rainPenalty == IF w # <<>> /\ w[1].precipitation > 0 THEN 12000 ELSE 0
    IN  Round(clamp(season * 720 + overallRiskScore * 220 + windBoost + dryBoost
                      - rainPenalty, 0, 100000), 1000)

\* w is the `weather` argument: <<>> for null, <<snapshot>> otherwise.  On the
\* model's input sets no double sum of these terms lands under an exact half.
estimatePollenTypeScore(type, currentMonth, w, overallRiskScore) ==
    LET season == seasonalFactor(currentMonth, type.seasonMonths)
        windBoost == IF w # <<>> THEN clamp((w[1].wind - 20) * 600, 0, 18000) ELSE 6000
        dryBoost == IF w # <<>> THEN clamp((500 - w[1].humidity) * 35, 0, 12000) ELSE 4000
        rainPenalty == IF w # <<>> /\ w[1].precipitation > 0 THEN 12000 ELSE 0
    IN  Round(clamp(season * 720 + overallRiskScore * 220 + windBoost + dryBoost
                      - rainPenalty, 0, 100000), 1000)

-----------------------------------------------------------------------------
(* Map score *)

\* In hundredths
monthScale(m) ==
    IF m >= 2 /\ m <= 4 THEN 100
    ELSE IF m = 5 THEN 78
    ELSE IF m >= 8 /\ m <= 10 THEN 55
    ELSE 35

\* Mutant: the 0.15 floor of the effective suitability dropped
effectiveSuitabilityNoFloor(suitability, m) == Min2(10000, suitability * monthScale(m))

\* clamp(suitability * monthScale, 0.15, 1), in ten-thousandths
effectiveSuitability(suitability, m) == clamp(suitability * monthScale(m), 1500, 10000)

\* Mutant: the baseline added whole, not weighted by 1 - effectiveSuitability
mapBlendWholeBaseline(rawScore, suitability, m) ==
    rawScore * effectiveSuitability(suitability, m) + 14 * 10000

\* rawScore * effectiveSuitability + baseline * (1 - effectiveSuitability),
\* in ten-thousandths
mapBlend(rawScore, suitability, m) ==
    LET eff == effectiveSuitability(suitability, m)
        baseline == 14
    IN  rawScore * eff + baseline * (10000 - eff)

\* <<rawScore, suitability, monthScale>> whose blend is an exact half and whose
\* double evaluation is the double just under it (0.95 * 24 + 14 * (1 - 0.95)
\* evaluates to 23.499999999999996).
MapBlendsBelowHalf ==
    { <<9, 30, 100>>, <<24, 95, 100>>, <<84, 85, 100>>, <<89, 82, 100>>,
      <<89, 86, 100>> }

\* Mutant: truncation in place of Math.round
adjustMapRiskScoreTruncating(rawScore, suitability, m) ==
    clamp(mapBlend(rawScore, suitability, m), 0, 1000000) \div 10000

adjustMapRiskScore(rawScore, suitability, m) ==
    LET clamped == clamp(mapBlend(rawScore, suitability, m), 0, 1000000)
    IN  IF <<rawScore, suitability, monthScale(m)>> \in MapBlendsBelowHalf
        THEN RoundBelowHalf(clamped, 10000)
        ELSE Round(clamped, 10000)

-----------------------------------------------------------------------------
(* The page: provider responses, loadRisk, loadMapRisk *)

\* A field of a provider response: a finite number (tenths), or a value that
\* is no finite number.
Num(v) == [kind |-> "number", value |-> v]

Undefined == [kind |-> "undefined", value |-> 0]

Null == [kind |-> "null", value |-> 0]

\* A string that is no number: Number(value) is NaN
Text == [kind |-> "text", value |-> 0]

\* Number(value), then the fallback unless the result is finite:
\* Number(undefined) is NaN, Number(null) is 0.
parseNumber(value, fallback) ==
    IF value.kind = "number" THEN value.value
    ELSE IF value.kind = "null" THEN 0
    ELSE fallback

\* mapCities, in declaration order; pollenSuitability in hundredths
mapCities ==
    << [id |-> "sapporo",   pollenSuitability |-> 64],
       [id |-> "sendai",    pollenSuitability |-> 95],
       [id |-> "tokyo",     pollenSuitability |-> 100],
       [id |-> "niigata",   pollenSuitability |-> 90],
       [id |-> "nagoya",    pollenSuitability |-> 93],
       [id |-> "osaka",     pollenSuitability |-> 88],
       [id |-> "hiroshima", pollenSuitability |-> 84],
       [id |-> "kochi",     pollenSuitability |-> 82],
       [id |-> "fukuoka",   pollenSuitability |-> 78],
       [id |-> "kagoshima", pollenSuitability |-> 66],
       [id |-> "naha",      pollenSuitability |-> 22] >>

\* Mutant: an element put before the elements of equal score
InsertByScoreBeforeEqual(sorted, x) ==
    LET before == { i \in 1..Len(sorted) : sorted[i].score > x.score }
        n == Cardinality(before)
    IN  SubSeq(sorted, 1, n) \o <<x>> \o SubSeq(sorted, n + 1, Len(sorted))

\* x put into a list sorted by score descending, after the elements whose
\* score is greater or equal
InsertByScore(sorted, x) ==
    LET before == { i \in 1..Len(sorted) : sorted[i].score >= x.score }
        n == Cardinality(before)
    IN  SubSeq(sorted, 1, n) \o <<x>> \o SubSeq(sorted, n + 1, Len(sorted))

RECURSIVE SortByScoreFrom(_, _, _)
SortByScoreFrom(list, i, sorted) ==
    IF i > Len(list) THEN sorted
    ELSE SortByScoreFrom(list, i + 1, InsertByScore(sorted, list[i]))

\* list.sort((a, b) => b.score - a.score): descending by score, stable
SortByScoreDesc(list) == SortByScoreFrom(list, 1, <<>>)

\* useMemo pollenTypeStatus, from the states month, weather and todayRisk
pollenTypeStatusOf(m, w, risk) ==
    LET overall == IF risk # <<>> THEN risk[1].score ELSE 40
        status(type) ==
            LET score == estimatePollenTypeScore(type, m, w, overall)
            IN  [id |-> type.id, seasonMonths |-> type.seasonMonths,
                 peakMonths |-> type.peakMonths, score |-> score,
                 level |-> riskLevel(score)]
    IN  SortByScoreDesc([i \in DOMAIN pollenCatalog |-> status(pollenCatalog[i])])

pollenTypeStatus == pollenTypeStatusOf(month, weather, todayRisk)

\* The snapshot loadRisk builds from the weather and air-quality responses
snapshotOf(current, air) ==
    [temperature   |-> parseNumber(current.temperature_2m, 120),
     humidity      |-> parseNumber(current.relative_humidity_2m, 500),
     wind          |-> parseNumber(current.wind_speed_10m, 20),
     precipitation |-> parseNumber(current.precipitation, 0),
     pm10          |-> parseNumber(air.pm10, 200),
     pm25          |-> parseNumber(air.pm2_5, 100)]

riskInput(m, snapshot) ==
    [month |-> m, temperature |-> snapshot.temperature, humidity |-> snapshot.humidity,
     wind |-> snapshot.wind, precipitation |-> snapshot.precipitation,
     pm10 |-> snapshot.pm10, pm25 |-> snapshot.pm25]

\* One element of forecastData; day.time is the provider's date, day.month the
\* month new Date(date).getMonth() + 1 gives for it
forecastDayOf(day, snapshot) ==
    LET r == estimateRisk(
                 [month         |-> day.month,
                  temperature   |-> parseNumber(day.temperature_2m_max, snapshot.temperature),
                  humidity      |-> snapshot.humidity,
                  wind          |-> parseNumber(day.wind_speed_10m_max, snapshot.wind),
                  precipitation |->
                      IF parseNumber(day.precipitation_probability_max, 0) >= 400
                      THEN 10 ELSE 0,
                  pm10          |-> snapshot.pm10,
                  pm25          |-> snapshot.pm25])
    IN  [date |-> day.time, score |-> r.score, level |-> r.level]

\* Mutant: the level of a map city taken from the raw risk, not the adjusted score
cityRiskPointRawLevel(city, current, m) ==
    LET temperature == parseNumber(current.temperature_2m, 120)
        humidity == parseNumber(current.relative_humidity_2m, 500)
        wind == parseNumber(current.wind_speed_10m, 20)
        precipitation == parseNumber(current.precipitation, 0)
        risk == estimateRisk([month |-> m, temperature |-> temperature,
                              humidity |-> humidity, wind |-> wind,
                              precipitation |-> precipitation,
                              pm10 |-> 240, pm25 |-> 130])
        adjustedScore == adjustMapRiskScore(risk.score, city.pollenSuitability, m)
    IN  [id |-> city.id, pollenSuitability |-> city.pollenSuitability,
         score |-> adjustedScore, level |-> risk.level,
         temperature |-> temperature, humidity |-> humidity, wind |-> wind,
         precipitation |-> precipitation]

\* The CityRiskPoint loadMapRisk builds from one city's response
cityRiskPoint(city, current, m) ==
    LET temperature == parseNumber(current.temperature_2m, 120)
        humidity == parseNumber(current.relative_humidity_2m, 500)
        wind == parseNumber(current.wind_speed_10m, 20)
        precipitation == parseNumber(current.precipitation, 0)
        risk == estimateRisk([month |-> m, temperature |-> temperature,
                              humidity |-> humidity, wind |-> wind,
                              precipitation |-> precipitation,
                              pm10 |-> 240, pm25 |-> 130])
        adjustedScore == adjustMapRiskScore(risk.score, city.pollenSuitability, m)
        level == riskLevel(adjustedScore)
    IN  [id |-> city.id, pollenSuitability |-> city.pollenSuitability,
         score |-> adjustedScore, level |-> level,
         temperature |-> temperature, humidity |-> humidity, wind |-> wind,
         precipitation |-> precipitation]

-----------------------------------------------------------------------------
(* The symptom log, the checklist and the two stored records *)

\* JSON values.  A list has items, an object has fields (key -> value).
NoFields == [k \in {} |-> FALSE]

JsonList(items) == [kind |-> "list", items |-> items, fields |-> NoFields]

JsonObject(fields) == [kind |-> "object", items |-> <<>>, fields |-> fields]

JsonNull == [kind |-> "null", items |-> <<>>, fields |-> NoFields]

\* What localStorage.getItem returns: null (absent), a text that JSON.parse
\* rejects (invalid), or a text that parses to a JSON value
StoredAbsent == [kind |-> "absent", value |-> JsonNull]

StoredInvalid == [kind |-> "invalid", value |-> JsonNull]

\* JSON.stringify(value), read back by JSON.parse as the same value
stringify(value) == [kind |-> "json", value |-> value]

\* The slice(0, 30) of submitLog
LogLimit == 30

\* actionItems: the keys, in declaration order
actionItems == <<"mask", "glasses", "laundryInside", "shower", "roomClean">>

defaultActionState == [k \in {actionItems[i] : i \in DOMAIN actionItems} |-> FALSE]

\* list.slice(start, end)
slice(list, start, end) ==
    IF start >= Len(list) THEN <<>>
    ELSE SubSeq(list, start + 1, Min2(end, Len(list)))

\* Object.values(actions).filter(Boolean).length over actionItems.length, as a
\* rounded percentage
completionRate(a) ==
    LET done == Cardinality({k \in DOMAIN a : a[k] = TRUE})
    IN  Round(done * 100, Len(actionItems))

\* Mutant: the trend of a short history is 0
trendZeroWhenShort(list) ==
    IF Len(list) < 6 THEN <<0>>
    ELSE LET latest == slice(list, 0, 3)
             previous == slice(list, 3, 6)
             latestSum == latest[1].severity + latest[2].severity + latest[3].severity
             previousSum == previous[1].severity + previous[2].severity
                               + previous[3].severity
         IN  <<(20 * (latestSum - previousSum) + 3) \div 6>>

\* useMemo trend of the list logs: <<>> is null, otherwise <<delta>> in tenths.
\* Number((latestAvg - previousAvg).toFixed(1)) is the multiple of 0.1 nearest
\* to (latestSum - previousSum) / 3; a third of an integer is never halfway
\* between two tenths.
trend(list) ==
    IF Len(list) < 6 THEN <<>>
    ELSE LET latest == slice(list, 0, 3)
             previous == slice(list, 3, 6)
             latestSum == latest[1].severity + latest[2].severity + latest[3].severity
             previousSum == previous[1].severity + previous[2].severity
                               + previous[3].severity
         IN  <<(20 * (latestSum - previousSum) + 3) \div 6>>

\* list.reduce((sum, item) => sum + item.severity, 0)
RECURSIVE severitySum(_)
severitySum(list) ==
    IF list = <<>> THEN 0 ELSE list[1].severity + severitySum(Tail(list))

\* Mutant: the mean of the whole history, not of its first 7 entries
weeklyAverageOfAll(list) ==
    IF Len(list) = 0 THEN <<>>
    ELSE <<(20 * severitySum(list) + Len(list)) \div (2 * Len(list))>>

\* useMemo weeklyAverage of the list logs: <<>> is null, otherwise <<avg>> in
\* tenths.  Number(avg.toFixed(1)) is the multiple of 0.1 nearest to the mean;
\* a mean halfway between two tenths is a multiple of 0.25, exact as a double,
\* and toFixed takes the larger tenth.
weeklyAverage(list) ==
    IF Len(list) = 0 THEN <<>>
    ELSE LET week == slice(list, 0, 7)
         IN  <<(20 * severitySum(week) + Len(week)) \div (2 * Len(week))>>

\* Characters String.prototype.trim removes
WhiteSpace == {" ", "\t", "\n"}

RECURSIVE trimStart(_)
trimStart(text) ==
    IF text # <<>> /\ Head(text) \in WhiteSpace THEN trimStart(Tail(text)) ELSE text

RECURSIVE trimEnd(_)
trimEnd(text) ==
    IF text # <<>> /\ text[Len(text)] \in WhiteSpace
    THEN trimEnd(SubSeq(text, 1, Len(text) - 1))
    ELSE text

\* memo.trim(), memo a sequence of characters
trim(text) == trimEnd(trimStart(text))

\* Mutant: the entry of the same date kept
submittedLogsKeepingDate(prev, item) == slice(<<item>> \o prev, 0, LogLimit)

\* Mutant: the list not cut to LogLimit entries
submittedLogsUncut(prev, item) ==
    <<item>> \o SelectSeq(prev, LAMBDA entry : entry.date # item.date)

\* The updater submitLog passes to setLogs
submittedLogs(prev, item) ==
    LET filtered == SelectSeq(prev, LAMBDA entry : entry.date # item.date)
    IN  slice(<<item>> \o filtered, 0, LogLimit)

\* The own enumerable properties of a JSON value, which {...value} copies:
\* the fields of an object, the items of a list under their indexes, none of null
ownProperties(value) ==
    IF value.kind = "object" THEN value.fields
    ELSE IF value.kind = "list"
    THEN [k \in {ToString(i - 1) : i \in DOMAIN value.items} |->
             value.items[CHOOSE i \in DOMAIN value.items : ToString(i - 1) = k]]
    ELSE NoFields

\* {...base, ...value}
spread(base, value) ==
    LET own == ownProperties(value)
    IN  [k \in DOMAIN base \cup DOMAIN own |-> IF k \in DOMAIN own THEN own[k] ELSE base[k]]

\* The load effect's setLogs call for a stored record: <<>> when it makes none
loadedLogs(stored) ==
    IF stored.kind = "absent" THEN <<>>
    ELSE IF stored.kind = "invalid" THEN <<JsonList(<<>>)>>
    ELSE <<stored.value>>

\* The load effect's setActions call for a stored record: <<>> when it makes none
loadedActions(stored) ==
    IF stored.kind = "absent" THEN <<>>
    ELSE IF stored.kind = "invalid" THEN <<defaultActionState>>
    ELSE <<spread(defaultActionState, stored.value)>>

\* Whether rendering with this value of logs throws: weeklyAverage reads
\* logs.length and calls logs.slice
renderThrows(value) == value.kind # "list"

-----------------------------------------------------------------------------
(* Input sets: readings in tenths *)

Temperatures == {-50, 90, 120, 200, 243, 300}

Humidities == {200, 400, 420, 700, 950}

Winds == {0, 20, 40, 50, 89, 120}

Precipitations == {0, 5, 20}

Pm10s == {-50, 300, 320, 700}

Pm25s == {0, 150, 400}

RiskInputs ==
    [month : monthList, temperature : Temperatures, humidity : Humidities,
     wind : Winds, precipitation : Precipitations, pm10 : Pm10s, pm25 : Pm25s]

-----------------------------------------------------------------------------
(* estimateRisk as a pure function: Init draws the input, the action calls  *)
(* it.  The application variables are not used.                             *)

\* The symptom log and the checklist after a startup with nothing stored, the
\* form untouched
StoreIdle ==
    /\ logs = JsonList(<<>>)
    /\ actions = defaultActionState
    /\ queuedLogs = <<>>
    /\ queuedActions = <<>>
    /\ storedLogs = stringify(JsonList(<<>>))
    /\ storedActions = stringify(JsonObject(defaultActionState))
    /\ phase = "mounted"
    /\ symptomSeverity = 4
    /\ tookMedicine = FALSE
    /\ memo = <<>>
    /\ today = 1
    /\ submittedDates = {}

\* The first default location selected, no loadRisk call made
SelectIdle ==
    /\ selectedId = "tokyo"
    /\ riskRequests = <<>>
    /\ customLocation = <<>>
    /\ geoLoading = FALSE
    /\ geoRequests = 0
    /\ hasGeolocation = TRUE

AppIdle ==
    /\ month = 1
    /\ weather = <<>>
    /\ todayRisk = <<>>
    /\ forecast = <<>>
    /\ isLoading = FALSE
    /\ error = "none"
    /\ riskInFlight = 0
    /\ mapRisks = <<>>
    /\ mapLoading = FALSE
    /\ mapError = "none"
    /\ activeMapCityId = "none"
    /\ mapInFlight = 0
    /\ mapUpdatedAt = "none"
    /\ mapResponses = <<>>
    /\ SelectIdle
    /\ StoreIdle

InitRisk ==
    /\ args \in RiskInputs
    /\ result = <<>>
    /\ AppIdle

CallEstimateRisk ==
    /\ result = <<>>
    /\ result' = <<estimateRisk(args)>>
    /\ UNCHANGED <<args, appVars>>

NextRisk == CallEstimateRisk

SpecRisk == InitRisk /\ [][NextRisk]_vars

-----------------------------------------------------------------------------
(* seasonalFactor as a pure function *)

SeasonInputs == [currentMonth : monthList, seasonMonths : SUBSET monthList]

InitSeason ==
    /\ args \in SeasonInputs
    /\ result = <<>>
    /\ AppIdle

CallSeasonalFactor ==
    /\ result = <<>>
    /\ result' = <<seasonalFactor(args.currentMonth, args.seasonMonths)>>
    /\ UNCHANGED <<args, appVars>>

NextSeason == CallSeasonalFactor

SpecSeason == InitSeason /\ [][NextSeason]_vars

-----------------------------------------------------------------------------
(* estimatePollenTypeScore as a pure function *)

PollenWinds == {0, 35, 60}

PollenHumidities == {100, 200, 420, 700}

PollenPrecipitations == {0, 5}

PollenWeathers ==
    {<<>>} \cup
    { <<[wind |-> w, humidity |-> h, precipitation |-> p]>> :
          w \in PollenWinds, h \in PollenHumidities, p \in PollenPrecipitations }

PollenInputs ==
    [type : {pollenCatalog[i] : i \in DOMAIN pollenCatalog}, currentMonth : monthList,
     weather : PollenWeathers, overallRiskScore : 0..100]

InitPollenType ==
    /\ args \in PollenInputs
    /\ result = <<>>
    /\ AppIdle

CallEstimatePollenTypeScore ==
    /\ result = <<>>
    /\ result' = <<estimatePollenTypeScore(args.type, args.currentMonth, args.weather,
                                           args.overallRiskScore)>>
    /\ UNCHANGED <<args, appVars>>

NextPollenType == CallEstimatePollenTypeScore

SpecPollenType == InitPollenType /\ [][NextPollenType]_vars

-----------------------------------------------------------------------------
(* adjustMapRiskScore as a pure function; suitability in hundredths *)

MapAdjustInputs == [rawScore : 0..100, suitability : 0..100, month : monthList]

InitMapAdjust ==
    /\ args \in MapAdjustInputs
    /\ result = <<>>
    /\ AppIdle

CallAdjustMapRiskScore ==
    /\ result = <<>>
    /\ result' = <<adjustMapRiskScore(args.rawScore, args.suitability, args.month)>>
    /\ UNCHANGED <<args, appVars>>

NextMapAdjust == CallAdjustMapRiskScore

SpecMapAdjust == InitMapAdjust /\ [][NextMapAdjust]_vars

-----------------------------------------------------------------------------
(* The page as a state machine *)

MaxInFlight == 1

MaxForecastDays == 2

AppMonths == {3, 5, 11}

\* Current conditions a weather response can carry
Currents ==
    { [temperature_2m |-> Num(200), relative_humidity_2m |-> Num(400),
       wind_speed_10m |-> Num(50), precipitation |-> Num(0)],
      [temperature_2m |-> Num(90), relative_humidity_2m |-> Num(700),
       wind_speed_10m |-> Num(40), precipitation |-> Num(5)],
      [temperature_2m |-> Undefined, relative_humidity_2m |-> Undefined,
       wind_speed_10m |-> Undefined, precipitation |-> Undefined] }

Airs ==
    { [pm10 |-> Num(320), pm2_5 |-> Num(150)],
      [pm10 |-> Undefined, pm2_5 |-> Null] }

\* The entries the daily arrays can carry for the day numbered t
Days(t, m) ==
    { [time |-> t, month |-> m, temperature_2m_max |-> Num(243),
       wind_speed_10m_max |-> Num(89), precipitation_probability_max |-> Num(300)],
      [time |-> t, month |-> m, temperature_2m_max |-> Undefined,
       wind_speed_10m_max |-> Undefined, precipitation_probability_max |-> Num(400)] }

Dailies(m) ==
    UNION { { d \in [1..n -> UNION { Days(t, m) : t \in 1..n }] :
                \A t \in 1..n : d[t].time = t } : n \in 0..MaxForecastDays }

\* The sets of cities (positions in mapCities) whose request one map load can
\* see rejected
MapFailures == { {}, {2, 11}, DOMAIN mapCities }

\* The current conditions the responses of one map load carry
MapCurrents ==
    { c \in Currents : c.temperature_2m.kind = "number" }

\* What a fulfilled loadRisk call sets: weather, todayRisk, forecast
riskFulfilment(current, air, daily, m) ==
    LET snapshot == snapshotOf(current, air)
    IN  [weather   |-> <<snapshot>>,
         todayRisk |-> <<estimateRisk(riskInput(m, snapshot))>>,
         forecast  |-> [i \in DOMAIN daily |-> forecastDayOf(daily[i], snapshot)]]

riskFulfilments ==
    [m \in AppMonths |->
        { riskFulfilment(current, air, daily, m) :
              current \in Currents, air \in Airs, daily \in Dailies(m) }]

\* Mutant: the cities whose request was rejected kept among the succeeded
mapSucceededKeepingFailed(failed, current, m) ==
    SortByScoreDesc([k \in DOMAIN mapCities |-> cityRiskPoint(mapCities[k], current, m)])

\* `succeeded` of a loadMapRisk call: the fulfilled cities' points, in the
\* order of mapCities, sorted by score descending
mapSucceeded(failed, current, m) ==
    LET fulfilled == SelectSeq([i \in DOMAIN mapCities |-> i],
                               LAMBDA i : i \notin failed)
    IN  SortByScoreDesc([k \in DOMAIN fulfilled |->
                            cityRiskPoint(mapCities[fulfilled[k]], current, m)])

\* What Promise.allSettled can resolve to: the cities whose request was
\* rejected, and `succeeded` for the others
mapSettlements ==
    [m \in AppMonths |->
        { [failed |-> failed, succeeded |-> mapSucceeded(failed, current, m)] :
              failed \in MapFailures, current \in MapCurrents }]

\* The times toJstTimeString(new Date()) can give a map load
Times == {1, 2}

Init ==
    /\ args = <<>>
    /\ result = <<>>
    /\ month \in AppMonths
    /\ weather = <<>>
    /\ todayRisk = <<>>
    /\ forecast = <<>>
    /\ isLoading = FALSE
    /\ error = "none"
    /\ riskInFlight = 0
    /\ mapRisks = <<>>
    /\ mapLoading = FALSE
    /\ mapError = "none"
    /\ activeMapCityId = "none"
    /\ mapInFlight = 0
    /\ mapUpdatedAt = "none"
    /\ mapResponses = <<>>
    /\ SelectIdle
    /\ StoreIdle

mapVars == <<mapRisks, mapLoading, mapError, activeMapCityId, mapInFlight, mapUpdatedAt,
             mapResponses>>

riskVars == <<weather, todayRisk, forecast, isLoading, error, riskInFlight>>

\* The loadRisk effect runs (mount, or a change of selectedLocation) up to its
\* await of the two fetches
LoadRiskStart ==
    /\ riskInFlight < MaxInFlight
    /\ isLoading' = TRUE
    /\ error' = "none"
    /\ riskInFlight' = riskInFlight + 1
    /\ UNCHANGED <<args, result, month, weather, todayRisk, forecast, mapVars,
                   selectVars, storeVars>>

\* Both fetches of a loadRisk call resolve with ok responses
LoadRiskFulfilled ==
    /\ riskInFlight > 0
    /\ \E f \in riskFulfilments[month] :
          /\ weather' = f.weather
          /\ todayRisk' = f.todayRisk
          /\ forecast' = f.forecast
    /\ isLoading' = FALSE
    /\ riskInFlight' = riskInFlight - 1
    /\ UNCHANGED <<args, result, month, error, mapVars, selectVars, storeVars>>

\* Mutant: a failed refresh shows the snapshot of the weather response alone
LoadRiskRejectedPartial ==
    /\ riskInFlight > 0
    /\ \E f \in riskFulfilments[month] : weather' = f.weather
    /\ error' = "weather_failed"
    /\ isLoading' = FALSE
    /\ riskInFlight' = riskInFlight - 1
    /\ UNCHANGED <<args, result, month, todayRisk, forecast, mapVars,
                   selectVars, storeVars>>

\* A fetch of a loadRisk call rejects, or a response is not ok
LoadRiskRejected ==
    /\ riskInFlight > 0
    /\ error' = "weather_failed"
    /\ isLoading' = FALSE
    /\ riskInFlight' = riskInFlight - 1
    /\ UNCHANGED <<args, result, month, weather, todayRisk, forecast, mapVars,
                   selectVars, storeVars>>

\* loadMapRisk runs (mount, or the map's refresh button, disabled while
\* mapLoading) up to its await
LoadMapStart ==
    /\ mapInFlight < MaxInFlight
    /\ ~mapLoading
    /\ mapLoading' = TRUE
    /\ mapError' = "none"
    /\ mapInFlight' = mapInFlight + 1
    /\ mapResponses' = <<>>
    /\ UNCHANGED <<args, result, month, riskVars, mapRisks, activeMapCityId,
                   mapUpdatedAt, selectVars, storeVars>>

\* Mutant: a load keeps the active city also when its request was rejected
LoadMapSettledKeepingActive ==
    /\ mapInFlight > 0
    /\ \E settled \in mapSettlements[month], now \in Times :
          LET succeeded == settled.succeeded
          IN  /\ args' = [failed |-> settled.failed]
              /\ IF Len(succeeded) = 0
                 THEN /\ mapError' = "map_failed"
                      /\ UNCHANGED <<mapRisks, activeMapCityId, mapUpdatedAt>>
                 ELSE /\ mapRisks' = succeeded
                      /\ mapUpdatedAt' = now
                      /\ activeMapCityId' =
                            IF activeMapCityId # "none" THEN activeMapCityId
                            ELSE succeeded[1].id
                      /\ mapError' = IF Len(succeeded) < Len(mapCities)
                                     THEN "map_partial" ELSE mapError
    /\ mapLoading' = FALSE
    /\ mapInFlight' = mapInFlight - 1
    /\ UNCHANGED <<result, month, riskVars, mapResponses, selectVars, storeVars>>

\* Every city request of a loadMapRisk call has settled; args records which
\* were rejected
LoadMapSettled ==
    /\ mapInFlight > 0
    /\ \E settled \in mapSettlements[month], now \in Times :
          LET succeeded == settled.succeeded
          IN  /\ args' = [failed |-> settled.failed]
              /\ IF Len(succeeded) = 0
                 THEN /\ mapError' = "map_failed"
                      /\ UNCHANGED <<mapRisks, activeMapCityId, mapUpdatedAt>>
                 ELSE /\ mapRisks' = succeeded
                      /\ mapUpdatedAt' = now
                      /\ activeMapCityId' =
                            IF /\ activeMapCityId # "none"
                               /\ \E k \in DOMAIN succeeded :
                                     succeeded[k].id = activeMapCityId
                            THEN activeMapCityId
                            ELSE succeeded[1].id
                      /\ mapError' = IF Len(succeeded) < Len(mapCities)
                                     THEN "map_partial" ELSE mapError
    /\ mapLoading' = FALSE
    /\ mapInFlight' = mapInFlight - 1
    /\ UNCHANGED <<result, month, riskVars, mapResponses, selectVars, storeVars>>

Next ==
    \/ LoadRiskStart
    \/ LoadRiskFulfilled
    \/ LoadRiskRejected
    \/ LoadMapStart
    \/ LoadMapSettled

Spec == Init /\ [][Next]_vars

-----------------------------------------------------------------------------
(* trend as a pure function of the history *)

TrendSeverities == {0, 4, 9}

MaxTrendEntries == 7

\* Histories of n entries, one per day, newest first
TrendInputs(n) ==
    { [i \in 1..n |-> [date |-> n + 1 - i, severity |-> sev[i],
                       tookMedicine |-> FALSE, memo |-> <<>>]] :
          sev \in [1..n -> TrendSeverities] }

InitTrend ==
    /\ \E n \in 0..MaxTrendEntries : args \in TrendInputs(n)
    /\ result = <<>>
    /\ AppIdle

CallTrend ==
    /\ result = <<>>
    /\ result' = <<trend(args)>>
    /\ UNCHANGED <<args, appVars>>

NextTrend == CallTrend

SpecTrend == InitTrend /\ [][NextTrend]_vars

-----------------------------------------------------------------------------
(* Startup, the symptom log and the checklist *)

\* The last day the clock reaches
MaxDay == 32

\* The day the session starts on
SessionStart == LogLimit + 1

Severities == {2, 4}

\* The texts the memo field can hold
Memos == { <<>>, <<" ", "a", " ">> }

\* The entry a submission of the untouched form makes on day d
defaultEntry(d) == [date |-> d, severity |-> 4, tookMedicine |-> FALSE, memo |-> <<>>]

\* The history an earlier session leaves after a submission of the untouched
\* form on each of the days lo..hi, starting from the empty history; a
\* submission into the empty history leaves its one entry
RECURSIVE priorLog(_, _)
priorLog(lo, hi) ==
    IF hi < lo THEN <<>>
    ELSE LET prev == priorLog(lo, hi - 1)
         IN  IF prev = <<>> THEN <<defaultEntry(hi)>>
             ELSE submittedLogs(prev, defaultEntry(hi))

\* Earlier sessions: the days of their submissions
PriorRuns == { <<1, 0>>, <<31, 31>>, <<26, 31>>, <<3, 31>>, <<2, 31>>, <<1, 31>> }

\* What the log record can hold at startup, with the dates submitted so far
PriorLogSessions ==
    { [stored |-> stringify(JsonList(priorLog(r[1], r[2]))), submitted |-> r[1]..r[2]] :
          r \in PriorRuns }
    \cup { [stored |-> st, submitted |-> {}] :
              st \in {StoredAbsent, StoredInvalid, stringify(JsonNull),
                      stringify(JsonObject(NoFields))} }

\* What the checklist record can hold at startup
PriorActionRecords ==
    { StoredAbsent, StoredInvalid, stringify(JsonNull),
      stringify(JsonObject([k \in {"mask"} |-> TRUE])),
      stringify(JsonObject([defaultActionState EXCEPT !["shower"] = TRUE])),
      stringify(JsonObject([k \in {"mask", "legacy"} |-> TRUE])),
      stringify(JsonList(<<TRUE>>)) }

\* The page after its first render, before its effects run
FirstRender ==
    /\ args = <<>>
    /\ result = <<>>
    /\ month = 1
    /\ weather = <<>>
    /\ todayRisk = <<>>
    /\ forecast = <<>>
    /\ isLoading = FALSE
    /\ error = "none"
    /\ riskInFlight = 0
    /\ mapRisks = <<>>
    /\ mapLoading = FALSE
    /\ mapError = "none"
    /\ activeMapCityId = "none"
    /\ mapInFlight = 0
    /\ mapUpdatedAt = "none"
    /\ mapResponses = <<>>
    /\ SelectIdle
    /\ logs = JsonList(<<>>)
    /\ actions = defaultActionState
    /\ queuedLogs = <<>>
    /\ queuedActions = <<>>
    /\ phase = "rendered"
    /\ symptomSeverity = 4
    /\ tookMedicine = FALSE
    /\ memo = <<>>
    /\ today = SessionStart

InitLog ==
    /\ FirstRender
    /\ \E session \in PriorLogSessions :
          /\ storedLogs = session.stored
          /\ submittedDates = session.submitted
    /\ storedActions = StoredAbsent

InitChecklist ==
    /\ FirstRender
    /\ storedLogs = StoredAbsent
    /\ submittedDates = {}
    /\ storedActions \in PriorActionRecords

pageVars == <<result, month, weather, todayRisk, forecast, isLoading, error,
              riskInFlight, mapVars, selectVars>>

\* No state update waits for a render
Settled == phase = "mounted" /\ queuedLogs = <<>> /\ queuedActions = <<>>

\* The effects of the first commit, in declaration order: the load effect reads
\* both records and calls setLogs and setActions; the two persist effects, run
\* with the state of the first render, write both records.  args records what
\* the load effect read.
Mount ==
    /\ phase = "rendered"
    /\ args' = [storedLogs |-> storedLogs, storedActions |-> storedActions]
    /\ queuedLogs' = loadedLogs(storedLogs)
    /\ queuedActions' = loadedActions(storedActions)
    /\ storedLogs' = stringify(logs)
    /\ storedActions' = stringify(JsonObject(actions))
    /\ phase' = "mounted"
    /\ UNCHANGED <<pageVars, logs, actions, symptomSeverity, tookMedicine, memo,
                   today, submittedDates>>

\* Mutant: the render after the load effect's updates without the persist
\* effects
RerenderWithoutPersist ==
    /\ phase = "mounted"
    /\ queuedLogs # <<>> \/ queuedActions # <<>>
    /\ logs' = IF queuedLogs # <<>> THEN queuedLogs[1] ELSE logs
    /\ actions' = IF queuedActions # <<>> THEN queuedActions[1] ELSE actions
    /\ phase' = IF renderThrows(logs') THEN "crashed" ELSE phase
    /\ queuedLogs' = <<>>
    /\ queuedActions' = <<>>
    /\ UNCHANGED <<args, pageVars, storedLogs, storedActions, symptomSeverity,
                   tookMedicine, memo, today, submittedDates>>

\* The render after the load effect's updates, and the persist effects of the
\* states that changed; a render that throws leaves the page crashed
Rerender ==
    /\ phase = "mounted"
    /\ queuedLogs # <<>> \/ queuedActions # <<>>
    /\ LET newLogs == IF queuedLogs # <<>> THEN queuedLogs[1] ELSE logs
           newActions == IF queuedActions # <<>> THEN queuedActions[1] ELSE actions
       IN  /\ logs' = newLogs
           /\ actions' = newActions
           /\ IF renderThrows(newLogs)
              THEN /\ phase' = "crashed"
                   /\ UNCHANGED <<storedLogs, storedActions>>
              ELSE /\ phase' = phase
                   /\ storedLogs' = IF queuedLogs # <<>> THEN stringify(newLogs)
                                    ELSE storedLogs
                   /\ storedActions' = IF queuedActions # <<>>
                                       THEN stringify(JsonObject(newActions))
                                       ELSE storedActions
    /\ queuedLogs' = <<>>
    /\ queuedActions' = <<>>
    /\ UNCHANGED <<args, pageVars, symptomSeverity, tookMedicine, memo, today,
                   submittedDates>>

SetSymptomSeverity ==
    /\ Settled
    /\ \E v \in Severities : symptomSeverity' = v
    /\ UNCHANGED <<args, pageVars, logs, actions, queuedLogs, queuedActions, storedLogs,
                   storedActions, phase, tookMedicine, memo, today, submittedDates>>

SetTookMedicine ==
    /\ Settled
    /\ \E v \in BOOLEAN : tookMedicine' = v
    /\ UNCHANGED <<args, pageVars, logs, actions, queuedLogs, queuedActions, storedLogs,
                   storedActions, phase, symptomSeverity, memo, today, submittedDates>>

SetMemo ==
    /\ Settled
    /\ \E text \in Memos : memo' = text
    /\ UNCHANGED <<args, pageVars, logs, actions, queuedLogs, queuedActions, storedLogs,
                   storedActions, phase, symptomSeverity, tookMedicine, today,
                   submittedDates>>

\* Midnight in Japan passes
AdvanceDay ==
    /\ today < MaxDay
    /\ today' = today + 1
    /\ UNCHANGED <<args, pageVars, logs, actions, queuedLogs, queuedActions, storedLogs,
                   storedActions, phase, symptomSeverity, tookMedicine, memo,
                   submittedDates>>

\* submitLog, the render that follows and the persist effect of logs; args
\* records the date and the form the call read
SubmitLog ==
    /\ Settled
    /\ LET item == [date |-> today, severity |-> symptomSeverity,
                    tookMedicine |-> tookMedicine, memo |-> trim(memo)]
       IN  /\ logs' = JsonList(submittedLogs(logs.items, item))
           /\ storedLogs' = stringify(logs')
    /\ args' = [date |-> today, severity |-> symptomSeverity,
                tookMedicine |-> tookMedicine, memo |-> memo]
    /\ memo' = <<>>
    /\ submittedDates' = submittedDates \cup {today}
    /\ UNCHANGED <<pageVars, actions, queuedLogs, queuedActions, storedActions, phase,
                   symptomSeverity, tookMedicine, today>>

\* toggleAction, the render that follows and the persist effect of actions
ToggleAction ==
    /\ Settled
    /\ \E i \in DOMAIN actionItems :
          actions' = [actions EXCEPT ![actionItems[i]] = ~actions[actionItems[i]]]
    /\ storedActions' = stringify(JsonObject(actions'))
    /\ UNCHANGED <<args, pageVars, logs, queuedLogs, queuedActions, storedLogs, phase,
                   symptomSeverity, tookMedicine, memo, today, submittedDates>>

NextLog ==
    \/ Mount
    \/ Rerender
    \/ SetSymptomSeverity
    \/ SetTookMedicine
    \/ SetMemo
    \/ AdvanceDay
    \/ SubmitLog

SpecLog == InitLog /\ [][NextLog]_vars

NextChecklist ==
    \/ Mount
    \/ Rerender
    \/ ToggleAction

SpecChecklist == InitChecklist /\ [][NextChecklist]_vars

-----------------------------------------------------------------------------
(* Claims about estimateRisk, checked under SpecRisk *)

Called == result # <<>>

\* C1: for every month and every reading, negative temperature, zero wind
\* and zero or negative particulates included, the score estimateRisk returns
\* is an integer with 0 <= score <= 100.
C1_ScoreInRange == Called => result[1].score \in 0..100

\* A call with negative temperature, zero wind and non-positive particulates
\* whose running total is negative and whose score is the floor 0.
C1_Witness ==
    /\ Called
    /\ args.temperature < 0 /\ args.wind = 0 /\ args.pm10 < 0 /\ args.pm25 = 0
    /\ runningTotal(args) < 0
    /\ result[1].score = 0

ExampleSnapshot ==
    [month |-> 3, temperature |-> 200, humidity |-> 400, wind |-> 50,
     precipitation |-> 0, pm10 |-> 300, pm25 |-> 150]

\* C3: for {temperature 20, humidity 40, wind 5, precipitation 0, pm10 30,
\* pm25 15} in month 3 estimateRisk returns score 76 with the highest level;
\* with precipitation 2 it returns score 60 with level high.
C3_Examples ==
    /\ (Called /\ args = ExampleSnapshot)
          => (result[1].score = 76 /\ result[1].level = "highest")
    /\ (Called /\ args = [ExampleSnapshot EXCEPT !.precipitation = 20])
          => (result[1].score = 60 /\ result[1].level = "high")

\* The call on the example snapshot with precipitation 2 has returned.
C3_Witness ==
    /\ Called
    /\ args = [ExampleSnapshot EXCEPT !.precipitation = 20]
    /\ runningTotal(args) = 59900

\* C4: with the month and the other readings fixed, for wind speeds w1 <= w2
\* the score with w2 is at least the score with w1; the wind contribution is
\* never negative and never exceeds 20.
C4_WindMonotone ==
    Called =>
        /\ windContribution(args.wind) >= 0
        /\ windContribution(args.wind) <= 20000
        /\ \A w2 \in Winds :
              args.wind <= w2 =>
                  result[1].score <= estimateRisk([args EXCEPT !.wind = w2]).score

\* A call whose score a stronger wind raises, and which calm air (wind 0,
\* under the 2 m/s offset) leaves equal to it.
C4_Witness ==
    /\ Called
    /\ args.wind = 20
    /\ estimateRisk([args EXCEPT !.wind = 50]).score > result[1].score
    /\ estimateRisk([args EXCEPT !.wind = 0]).score = result[1].score

\* C5: with the other inputs fixed, changing precipitation from 0 to any
\* positive value lowers the running total before the final clamp by exactly
\* 16; the final score with rain is never higher than without, lower by at
\* most 16, and the same for every positive amount.
C5_RainPenalty ==
    (Called /\ args.precipitation = 0) =>
        \A p \in Precipitations :
            p > 0 =>
                LET wet == [args EXCEPT !.precipitation = p]
                IN  /\ runningTotal(wet) = runningTotal(args) - 16000
                    /\ estimateRisk(wet).score <= result[1].score
                    /\ result[1].score - estimateRisk(wet).score <= 16
                    /\ \A q \in Precipitations :
                          q > 0 => estimateRisk([args EXCEPT !.precipitation = q]).score
                                      = estimateRisk(wet).score

\* A dry call whose score rain lowers by less than 16, the floor 0 cutting
\* the difference.
C5_Witness ==
    /\ Called
    /\ args.precipitation = 0
    /\ result[1].score > 0
    /\ result[1].score < 16
    /\ estimateRisk([args EXCEPT !.precipitation = 5]).score = 0

-----------------------------------------------------------------------------
(* Claims about seasonalFactor, checked under SpecSeason *)

\* The month k steps after a (k < 0: before), going round the year
MonthAfter(a, k) == ((a - 1 + k) % 12) + 1

\* The least number of month steps, forwards or backwards round the year
\* (December and January adjacent), from month a to a month of the set;
\* 7 when the set is empty.
StepsToSeason(a, months) ==
    IF months = {} THEN 7
    ELSE CHOOSE k \in 0..6 :
            /\ \E m \in months : m = MonthAfter(a, k) \/ m = MonthAfter(a, -k)
            /\ \A j \in 0..(k - 1) :
                  \A m \in months : m # MonthAfter(a, j) /\ m # MonthAfter(a, -j)

\* C6: seasonalFactor is 1 when the month is in the season, 0.44 when the
\* smallest circular month distance to a season month is exactly 1, 0.2 when
\* it is exactly 2, and 0 otherwise; for season {2,3,4} it is 1 for month 3,
\* 0.44 for months 1 and 5, 0.2 for months 12 and 6, and 0 for month 8.
C6_SeasonalFactor ==
    Called =>
        LET steps == StepsToSeason(args.currentMonth, args.seasonMonths)
        IN  /\ result[1] = (IF steps = 0 THEN 100
                            ELSE IF steps = 1 THEN 44
                            ELSE IF steps = 2 THEN 20
                            ELSE 0)
            /\ args.seasonMonths = {2, 3, 4} =>
                  /\ args.currentMonth = 3 => result[1] = 100
                  /\ args.currentMonth \in {1, 5} => result[1] = 44
                  /\ args.currentMonth \in {12, 6} => result[1] = 20
                  /\ args.currentMonth = 8 => result[1] = 0

\* The call for December with season {2,3,4} has returned 0.2: two months
\* away across the year boundary.
C6_Witness ==
    /\ Called
    /\ args.seasonMonths = {2, 3, 4}
    /\ args.currentMonth = 12
    /\ result[1] = 20

-----------------------------------------------------------------------------
(* Claims about estimatePollenTypeScore, checked under SpecPollenType *)

\* Math.round of x thousandths, for 0 <= x <= 100000: the integer n with
\* n - 1/2 <= x/1000 < n + 1/2
NearestHalfUp(x) == CHOOSE n \in 0..100 : 1000 * n - 500 <= x /\ x < 1000 * n + 500

\* clamp(x, lo, hi) written out by cases
Limited(x, lo, hi) == IF x < lo THEN lo ELSE IF x > hi THEN hi ELSE x

\* C7: estimatePollenTypeScore returns an integer in [0,100] equal to
\* round(clamp(seasonalFactor*72 + overallScore*0.22 + windBoost + dryBoost
\* - rainPenalty, 0, 100)), where with a snapshot windBoost =
\* clamp((wind-2)*6, 0, 18), dryBoost = clamp((50-humidity)*0.35, 0, 12) and
\* rainPenalty = 12 iff precipitation > 0, and with no snapshot windBoost = 6,
\* dryBoost = 4 and rainPenalty = 0.
C7_PollenTypeScore ==
    Called =>
        LET season == seasonalFactor(args.currentMonth, args.type.seasonMonths)
            has == args.weather # <<>>
            windBoost == IF has THEN Limited((args.weather[1].wind - 20) * 600, 0, 18000)
                         ELSE 6000
            dryBoost == IF has THEN Limited((500 - args.weather[1].humidity) * 35, 0, 12000)
                        ELSE 4000
            rainPenalty == IF has /\ args.weather[1].precipitation > 0 THEN 12000 ELSE 0
            total == season * 720 + args.overallRiskScore * 220 + windBoost + dryBoost
                        - rainPenalty
        IN  /\ result[1] \in 0..100
            /\ result[1] = NearestHalfUp(Limited(total, 0, 100000))

\* The call for cedar in June without a snapshot has returned 33:
\* 0.2 * 72 + 40 * 0.22 + 6 + 4 = 33.2, with the fallback boosts 6 and 4.
C7_Witness ==
    /\ Called
    /\ args.weather = <<>>
    /\ args.type.id = "cedar"
    /\ args.currentMonth = 6
    /\ args.overallRiskScore = 40
    /\ result[1] = 33

-----------------------------------------------------------------------------
(* Claims about adjustMapRiskScore, checked under SpecMapAdjust *)

\* C9: for every rawScore in 0..100, suitability in [0,1] and month,
\* adjustMapRiskScore returns an integer in [0,100], computed with an
\* effective suitability clamp(suitability*monthScale, 0.15, 1) that is never
\* below 0.15.
C9_MapScoreInRange ==
    Called =>
        LET eff == effectiveSuitability(args.suitability, args.month)
            product == args.suitability * monthScale(args.month)
        IN  /\ result[1] \in 0..100
            /\ eff >= 1500
            /\ eff <= 10000
            /\ eff = Limited(product, 1500, 10000)
            /\ 10000 * result[1] - 5000 <= args.rawScore * eff + 14 * (10000 - eff)
            /\ args.rawScore * eff + 14 * (10000 - eff) <= 10000 * result[1] + 5000

\* A call off season with a suitability whose product with the month scale is
\* under 0.15: the floor holds the effective suitability at 0.15.
C9_Witness ==
    /\ Called
    /\ args.month = 12
    /\ args.suitability = 22
    /\ args.rawScore = 100
    /\ effectiveSuitability(args.suitability, args.month) = 1500
    /\ result[1] = 27

\* C10 as stated: for suitability 0 and a month in {2,3,4}, the result
\* differs from the baseline 14 for every rawScore other than 14.
C10_NeverBaseline ==
    (Called /\ args.suitability = 0 /\ args.month \in {2, 3, 4} /\ args.rawScore # 14)
        => result[1] # 14

\* C10 amended: for suitability 0 and a month in {2,3,4}, the blend before
\* rounding equals 14 only for rawScore 14, and the rounded result equals 14
\* exactly for rawScore in 11..17.
C10_BaselineOnlyNear14 ==
    (Called /\ args.suitability = 0 /\ args.month \in {2, 3, 4}) =>
        /\ (mapBlend(args.rawScore, args.suitability, args.month) = 140000)
              <=> (args.rawScore = 14)
        /\ (result[1] = 14) <=> (args.rawScore \in 11..17)

\* The call for rawScore 11, suitability 0 in March has returned 14
\* (0.15 * 11 + 0.85 * 14 = 13.55).
C10_Witness ==
    /\ Called
    /\ args.suitability = 0
    /\ args.month = 3
    /\ args.rawScore = 11
    /\ mapBlend(args.rawScore, args.suitability, args.month) = 135500
    /\ result[1] = 14

-----------------------------------------------------------------------------
(* Claims about the page, checked under Spec *)

\* The fixed thresholds, each category with its inclusive lower bound
LevelByThreshold(score, level) ==
    /\ score >= 75 => level = "highest"
    /\ (55 <= score /\ score < 75) => level = "high"
    /\ (35 <= score /\ score < 55) => level = "elevated"
    /\ score < 35 => level = "low"

\* Every score/level pair the state holds: todayRisk, the forecast days, the
\* pollen-type statuses, the map's city points
ScoreLevelPairs ==
    LET st == pollenTypeStatus
    IN  { <<todayRisk[i].score, todayRisk[i].level>> : i \in DOMAIN todayRisk }
        \cup { <<forecast[i].score, forecast[i].level>> : i \in DOMAIN forecast }
        \cup { <<st[i].score, st[i].level>> : i \in DOMAIN st }
        \cup { <<mapRisks[i].score, mapRisks[i].level>> : i \in DOMAIN mapRisks }

\* What estimateRisk gives the readings of a city point, before the
\* suitability adjustment
RawRiskOf(point) ==
    estimateRisk([month |-> month, temperature |-> point.temperature,
                  humidity |-> point.humidity, wind |-> point.wind,
                  precipitation |-> point.precipitation,
                  pm10 |-> 240, pm25 |-> 130])

\* C2: every score/level pair the program produces (today's RiskResult, each
\* ForecastDay, each PollenTypeStatus, each CityRiskPoint) satisfies the fixed
\* thresholds applied to that same final score, a score equal to 75, 55 or 35
\* belonging to the higher category; for a CityRiskPoint the score is the
\* suitability-adjusted one and the level is derived from it.
C2_LevelsFollowThresholds ==
    /\ \A pair \in ScoreLevelPairs : LevelByThreshold(pair[1], pair[2])
    /\ \A i \in DOMAIN mapRisks :
          mapRisks[i].score =
              adjustMapRiskScore(RawRiskOf(mapRisks[i]).score,
                                 mapRisks[i].pollenSuitability, month)

\* After a refresh and a map load: all four kinds of pair are present, one
\* pair has a score equal to a threshold, and one city's level (from its
\* adjusted score) differs from the level of its raw score.
C2_Witness ==
    /\ todayRisk # <<>>
    /\ forecast # <<>>
    /\ mapRisks # <<>>
    /\ \E pair \in ScoreLevelPairs : pair[1] \in {35, 55, 75}
    /\ \E i \in DOMAIN mapRisks : mapRisks[i].level # RawRiskOf(mapRisks[i]).level

\* The position of a taxon in pollenCatalog
CatalogIndex(id) == CHOOSE i \in DOMAIN pollenCatalog : pollenCatalog[i].id = id

\* C8: the pollen-type status list always contains every catalog taxon
\* exactly once, ordered by score descending; two taxa with equal scores
\* appear in the order in which the catalog declares them.
C8_PollenStatusOrder ==
    LET st == pollenTypeStatus
    IN  /\ Len(st) = Len(pollenCatalog)
        /\ \A i \in DOMAIN pollenCatalog :
              Cardinality({ k \in DOMAIN st : st[k].id = pollenCatalog[i].id }) = 1
        /\ \A k, l \in DOMAIN st :
              k < l =>
                  /\ st[k].score >= st[l].score
                  /\ st[k].score = st[l].score
                        => CatalogIndex(st[k].id) < CatalogIndex(st[l].id)

\* After a refresh, in May: cypress, grass and birch are all in season and
\* have equal scores, and the list orders them as the catalog does, after a
\* sort that moved a taxon (cedar is first in the catalog and not first here).
C8_Witness ==
    /\ weather # <<>>
    /\ todayRisk # <<>>
    /\ month = 5
    /\ pollenTypeStatus[1].id = "cypress"
    /\ pollenTypeStatus[2].id = "grass"
    /\ pollenTypeStatus[3].id = "birch"
    /\ pollenTypeStatus[1].score = pollenTypeStatus[3].score
    /\ pollenTypeStatus[3].score > pollenTypeStatus[4].score

-----------------------------------------------------------------------------
(* Claims about the symptom log, checked under SpecLog *)

\* The dates of a list of entries
DatesOf(list) == { list[i].date : i \in DOMAIN list }

\* No two entries of the list have the same date
OnePerDate(list) ==
    \A i, j \in DOMAIN list : list[i].date = list[j].date => i = j

\* The text without its leading and trailing white space
Trimmed(text) ==
    LET solid == { i \in DOMAIN text : text[i] \notin WhiteSpace }
    IN  IF solid = {} THEN <<>>
        ELSE SubSeq(text, CHOOSE a \in solid : \A i \in solid : a <= i,
                          CHOOSE b \in solid : \A i \in solid : b >= i)

\* The position in the list of its entry for the date
PositionOf(list, date) == CHOOSE i \in DOMAIN list : list[i].date = date

\* C11: a submitLog call on a history with at most one entry per date leaves
\* at most one entry per date; the entry for the submission date is the one
\* just submitted (its severity, medicine flag and trimmed memo), first in the
\* list; the entries for other dates keep their content and relative order,
\* and none is dropped except by the cut to 30 entries.
C11_SubmitReplacesSameDate ==
    [][ (SubmitLog /\ OnePerDate(logs.items)) =>
          LET before == logs.items
              after == logs'.items
          IN  /\ OnePerDate(after)
              /\ after[1] = [date |-> today, severity |-> symptomSeverity,
                             tookMedicine |-> tookMedicine, memo |-> Trimmed(memo)]
              /\ \A i \in 2..Len(after) :
                    /\ after[i].date # today
                    /\ \E j \in DOMAIN before : before[j] = after[i]
              /\ \A i, k \in 2..Len(after) :
                    i < k => PositionOf(before, after[i].date)
                                < PositionOf(before, after[k].date)
              /\ \A j \in DOMAIN before :
                    before[j].date # today =>
                        \/ \E i \in DOMAIN after : after[i] = before[j]
                        \/ Len(after) = LogLimit
    ]_vars

\* A submission on day 31 with severity 2, medicine taken and memo " a " has
\* replaced the stored entry of day 31 in a history of 30 entries: the new
\* entry is first with memo "a", the entry of day 30 follows.
C11_Witness ==
    /\ "memo" \in DOMAIN args
    /\ args.memo = <<" ", "a", " ">>
    /\ Len(logs.items) = LogLimit
    /\ logs.items[1] = [date |-> 31, severity |-> 2, tookMedicine |-> TRUE,
                        memo |-> <<"a">>]
    /\ logs.items[2] = defaultEntry(30)
    /\ storedLogs = stringify(logs)

\* C12: after submissions from the empty history with dates never decreasing,
\* the history never holds more than 30 entries, is ordered newest date first,
\* and once 31 or more distinct dates have been submitted it holds exactly
\* the 30 most recent of them.
C12_NewestThirty ==
    (Settled /\ logs.kind = "list") =>
        LET list == logs.items
        IN  /\ Len(list) <= 30
            /\ \A i, j \in DOMAIN list : i < j => list[i].date > list[j].date
            /\ Cardinality(submittedDates) >= 31 =>
                  /\ Len(list) = 30
                  /\ DatesOf(list) =
                        { d \in submittedDates :
                            Cardinality({ e \in submittedDates : e > d }) < 30 }

\* Days 1..32 have all been submitted for: the history holds days 32 down to 3.
C12_Witness ==
    /\ Settled
    /\ submittedDates = 1..32
    /\ Len(logs.items) = 30
    /\ logs.items[1].date = 32
    /\ logs.items[30].date = 3

\* The entries of the list the log record holds; none when it holds no list
StoredEntries(stored) ==
    IF stored.kind = "json" /\ stored.value.kind = "list"
    THEN { stored.value.items[i] : i \in DOMAIN stored.value.items }
    ELSE {}

\* C14: no step removes an entry from the stored history, except that a
\* submission for the same date replaces it or the cut to the 30 most recent
\* entries drops it.
C14_StoredEntriesKept ==
    [][ \A entry \in StoredEntries(storedLogs) :
           \/ entry \in StoredEntries(storedLogs')
           \/ \E other \in StoredEntries(storedLogs') : other.date = entry.date
           \/ /\ Cardinality(StoredEntries(storedLogs')) = LogLimit
              /\ \A other \in StoredEntries(storedLogs') : other.date > entry.date
    ]_vars

\* Whether the load effect can use what the log record held
UsableLogRecord(stored) == stored.kind = "json" /\ stored.value.kind = "list"

\* Whether the load effect can use what the checklist record held
UsableActionRecord(stored) == stored.kind = "json" /\ stored.value.kind = "object"

\* C15: whatever the two records hold, startup completes without an error and
\* leaves the history a list, empty when the stored value was absent or
\* unusable, and the checklist the default when its stored value was absent
\* or unusable.
C15_StartupFallsBack ==
    /\ phase # "crashed"
    /\ logs.kind = "list"
    /\ (Settled /\ "storedLogs" \in DOMAIN args) =>
          /\ ~UsableLogRecord(args.storedLogs) => logs.items = <<>>
          /\ ~UsableActionRecord(args.storedActions) => actions = defaultActionState

-----------------------------------------------------------------------------
(* Claims about trend, checked under SpecTrend *)

\* C13: trend is null, not 0, for a history of fewer than 6 entries; for 6 or
\* more it is the mean severity of positions 0..2 minus the mean severity of
\* positions 3..5, rounded to one decimal, whatever the entries from
\* position 6 on.
C13_Trend ==
    Called =>
        LET r == result[1]
        IN  /\ Len(args) < 6 => r = <<>>
            /\ Len(args) >= 6 =>
                  LET d == (args[1].severity + args[2].severity + args[3].severity)
                              - (args[4].severity + args[5].severity + args[6].severity)
                  IN  /\ Len(r) = 1
                      /\ 6 * r[1] - 20 * d \in -3..3
                      /\ r = trend(SubSeq(args, 1, 6))

\* trend of seven entries with severities 9, 4, 4, 0, 0, 0, 9 is 5.7:
\* 17/3 - 0 = 5.67, the seventh entry not counted.
C13_Witness ==
    /\ Called
    /\ Len(args) = 7
    /\ [i \in 1..7 |-> args[i].severity] = <<9, 4, 4, 0, 0, 0, 9>>
    /\ result[1] = <<57>>

-----------------------------------------------------------------------------
(* Claims about the checklist, checked under SpecChecklist *)

\* C16: the checklist state always has exactly the five keys of actionItems,
\* each boolean, and the completion rate counts the five keys only; in the
\* state a load leaves, a key the stored state lacks is false.
C16_FiveKeys ==
    LET keys == { actionItems[i] : i \in DOMAIN actionItems }
    IN  /\ DOMAIN actions = keys
        /\ \A k \in keys : actions[k] \in BOOLEAN
        /\ completionRate(actions) = 20 * Cardinality({ k \in keys : actions[k] })
        /\ (Settled /\ "storedActions" \in DOMAIN args
               /\ UsableActionRecord(args.storedActions)
               /\ storedActions = stringify(JsonObject(spread(defaultActionState,
                                                              args.storedActions.value)))) =>
              \A k \in keys :
                  k \notin DOMAIN args.storedActions.value.fields => actions[k] = FALSE

-----------------------------------------------------------------------------
(* snapshotOf as a pure function of the two responses *)

\* What one field of a response can hold
FieldValues == {Num(185), Undefined, Null, Text}

SnapshotInputs ==
    [current : [temperature_2m : FieldValues, relative_humidity_2m : FieldValues,
                wind_speed_10m : FieldValues, precipitation : FieldValues],
     air : [pm10 : FieldValues, pm2_5 : FieldValues]]

InitSnapshot ==
    /\ args \in SnapshotInputs
    /\ result = <<>>
    /\ AppIdle

CallSnapshotOf ==
    /\ result = <<>>
    /\ result' = <<snapshotOf(args.current, args.air)>>
    /\ UNCHANGED <<args, appVars>>

NextSnapshot == CallSnapshotOf

SpecSnapshot == InitSnapshot /\ [][NextSnapshot]_vars

\* The field's number when it holds a finite number, the fallback otherwise
OrFallback(value, fallback) == IF value.kind = "number" THEN value.value ELSE fallback

\* C17: every response field that is undefined, null or no finite number is
\* replaced by its fallback and by no other value: temperature 12, humidity
\* 50, wind 2, precipitation 0, pm10 20, pm25 10 for the primary location, and
\* the same fallbacks with pm10 24 and pm25 13 for a map city.
C17_MissingFieldsFallBack ==
    Called =>
        LET temperature == OrFallback(args.current.temperature_2m, 120)
            humidity == OrFallback(args.current.relative_humidity_2m, 500)
            wind == OrFallback(args.current.wind_speed_10m, 20)
            precipitation == OrFallback(args.current.precipitation, 0)
            city == cityRiskPoint(mapCities[3], args.current, 3)
        IN  /\ result[1] = [temperature |-> temperature, humidity |-> humidity,
                            wind |-> wind, precipitation |-> precipitation,
                            pm10 |-> OrFallback(args.air.pm10, 200),
                            pm25 |-> OrFallback(args.air.pm2_5, 100)]
            /\ city.temperature = temperature
            /\ city.humidity = humidity
            /\ city.wind = wind
            /\ city.precipitation = precipitation
            /\ city.score =
                  adjustMapRiskScore(
                      estimateRisk([month |-> 3, temperature |-> temperature,
                                    humidity |-> humidity, wind |-> wind,
                                    precipitation |-> precipitation,
                                    pm10 |-> 240, pm25 |-> 130]).score,
                      city.pollenSuitability, 3)

-----------------------------------------------------------------------------
(* The location selection and its loadRisk calls *)

\* The loadRisk calls one behaviour makes
MaxRequests == 3

\* The ids of defaultLocations the model selects among
SelectableIds == {"tokyo", "osaka", "nagoya"}

\* The id of the LocationOption the geolocation button builds
CurrentLocationId == "current-location"

LocationIds == SelectableIds \cup {CurrentLocationId}

\* The ids of `options`: the custom location, when there is one, and the
\* default locations
options ==
    (IF customLocation # <<>> THEN {CurrentLocationId} ELSE {}) \cup SelectableIds

\* What the providers report for each location while the page runs
providerCurrent ==
    [id \in LocationIds |->
        IF id = "tokyo"
        THEN [temperature_2m |-> Num(200), relative_humidity_2m |-> Num(400),
              wind_speed_10m |-> Num(50), precipitation |-> Num(0)]
        ELSE IF id = "osaka"
        THEN [temperature_2m |-> Num(90), relative_humidity_2m |-> Num(700),
              wind_speed_10m |-> Num(40), precipitation |-> Num(5)]
        ELSE [temperature_2m |-> Num(243), relative_humidity_2m |-> Num(420),
              wind_speed_10m |-> Num(89), precipitation |-> Num(0)]]

\* What a fulfilled loadRisk call for the location sets
shownFor(id, m) ==
    riskFulfilment(providerCurrent[id], [pm10 |-> Num(320), pm2_5 |-> Num(150)],
                   <<[time |-> 1, month |-> m, temperature_2m_max |-> Num(243),
                      wind_speed_10m_max |-> Num(89),
                      precipitation_probability_max |-> Num(300)]>>, m)

shownTable == [id \in LocationIds |-> [m \in AppMonths |-> shownFor(id, m)]]

InitSelect == Init

storeAndMap == <<mapVars, storeVars, geoVars>>

\* loadRisk up to its await, for the location selected when the effect runs
StartedFor(id) ==
    /\ isLoading' = TRUE
    /\ error' = "none"
    /\ riskRequests' = Append(riskRequests, [location |-> id, status |-> "pending"])
    /\ riskInFlight' = riskInFlight + 1
    /\ UNCHANGED <<args, result, month, weather, todayRisk, forecast, storeAndMap>>

\* The loadRisk effect of the first commit
MountLoadRisk ==
    /\ riskRequests = <<>>
    /\ StartedFor(selectedId)
    /\ UNCHANGED selectedId

\* The location select changes selectedId; selectedLocation changes and the
\* loadRisk effect runs again
SelectLocation ==
    /\ riskRequests # <<>>
    /\ Len(riskRequests) < MaxRequests
    /\ \E id \in options \ {selectedId} :
          /\ selectedId' = id
          /\ StartedFor(id)

\* Both fetches of an outstanding loadRisk call resolve with ok responses
RiskResponseFulfilled ==
    \E i \in DOMAIN riskRequests :
        /\ riskRequests[i].status = "pending"
        /\ LET f == shownTable[riskRequests[i].location][month]
           IN  /\ weather' = f.weather
               /\ todayRisk' = f.todayRisk
               /\ forecast' = f.forecast
        /\ isLoading' = FALSE
        /\ riskRequests' = [riskRequests EXCEPT ![i].status = "fulfilled"]
        /\ riskInFlight' = riskInFlight - 1
        /\ UNCHANGED <<args, result, month, error, selectedId, storeAndMap>>

\* A fetch of an outstanding loadRisk call rejects, or a response is not ok
RiskResponseRejected ==
    \E i \in DOMAIN riskRequests :
        /\ riskRequests[i].status = "pending"
        /\ error' = "weather_failed"
        /\ isLoading' = FALSE
        /\ riskRequests' = [riskRequests EXCEPT ![i].status = "rejected"]
        /\ riskInFlight' = riskInFlight - 1
        /\ UNCHANGED <<args, result, month, weather, todayRisk, forecast, selectedId,
                       storeAndMap>>

NextSelect ==
    \/ MountLoadRisk
    \/ SelectLocation
    \/ RiskResponseFulfilled
    \/ RiskResponseRejected

SpecSelect == InitSelect /\ [][NextSelect]_vars

\* C19: once every loadRisk call has settled, what the page shows is what
\* the newest call (the one for the selected location) produced, in whatever
\* order the responses completed: its weather, todayRisk and forecast with
\* no error when it was fulfilled, its error message when it was rejected.
C19_NewestFetchShown ==
    (riskRequests # <<>> /\ \A i \in DOMAIN riskRequests :
                               riskRequests[i].status # "pending") =>
        LET newest == riskRequests[Len(riskRequests)]
            f == shownTable[newest.location][month]
        IN  /\ newest.location = selectedId
            /\ newest.status = "fulfilled" =>
                  /\ weather = f.weather
                  /\ todayRisk = f.todayRisk
                  /\ forecast = f.forecast
                  /\ error = "none"
            /\ newest.status = "rejected" => error = "weather_failed"

-----------------------------------------------------------------------------
(* Claims about failed loads, checked under Spec *)

\* C18: a primary-location refresh that fails sets the one error message and
\* leaves weather, todayRisk and forecast exactly as they were.
C18_FailedRefreshKeepsSnapshot ==
    [][ LoadRiskRejected =>
          /\ error' = "weather_failed"
          /\ weather' = weather
          /\ todayRisk' = todayRisk
          /\ forecast' = forecast
    ]_vars

\* A refresh has failed after an earlier one succeeded: the error is set and
\* the earlier snapshot, risk and forecast are still shown.
C18_Witness ==
    /\ error = "weather_failed"
    /\ riskInFlight = 0
    /\ weather # <<>>
    /\ todayRisk # <<>>
    /\ forecast # <<>>
    /\ ~isLoading

\* C20: when a map load settles with some city fulfilled, mapRisks is exactly
\* the fulfilled cities, with the partial warning iff a city failed and no
\* message when none did; when every city failed, the hard error is set and
\* mapRisks, activeMapCityId and mapUpdatedAt are unchanged; mapLoading ends
\* false in every case.
C20_MapLoadOutcome ==
    [][ LoadMapSettled =>
          LET failed == args'.failed
              fulfilled == { mapCities[i].id : i \in DOMAIN mapCities \ failed }
          IN  /\ mapLoading' = FALSE
              /\ fulfilled # {} =>
                    /\ { mapRisks'[k].id : k \in DOMAIN mapRisks' } = fulfilled
                    /\ Len(mapRisks') = Cardinality(fulfilled)
                    /\ (mapError' = "map_partial") <=> (failed # {})
                    /\ failed = {} => mapError' = "none"
              /\ fulfilled = {} =>
                    /\ mapError' = "map_failed"
                    /\ mapRisks' = mapRisks
                    /\ activeMapCityId' = activeMapCityId
                    /\ mapUpdatedAt' = mapUpdatedAt
    ]_vars

\* A load in which every city failed has settled after a partial one: the
\* hard error is shown, and the nine cities, the active city and the time of
\* the partial load are kept.
C20_Witness ==
    /\ "failed" \in DOMAIN args
    /\ args.failed = DOMAIN mapCities
    /\ mapError = "map_failed"
    /\ ~mapLoading
    /\ Len(mapRisks) = 9
    /\ activeMapCityId # "none"
    /\ mapUpdatedAt = 2

-----------------------------------------------------------------------------
(* The clock: the instant new Date() gives and the browser's timezone *)

\* Asia/Tokyo is 9 hours ahead of UTC all year
TokyoOffset == 9

\* The instants are whole hours counted from 2026-01-30T00:00Z
ClockHours == 72

Instants == 24..(24 + ClockHours - 1)

\* UTC offsets of the browser's timezone, in hours: Los Angeles, UTC, Tokyo,
\* Auckland
Zones == {-8, 0, 9, 13}

\* The calendar dates from 2026-01-30 on, one per day
RECURSIVE calendarFrom(_, _, _)
calendarFrom(m, d, n) ==
    IF n = 0 THEN <<>>
    ELSE <<[year |-> 2026, month |-> m, day |-> d]>>
         \o (IF m = 1 /\ d = 31 THEN calendarFrom(2, 1, n - 1)
             ELSE calendarFrom(m, d + 1, n - 1))

calendar == calendarFrom(1, 30, 6)

\* The calendar date a clock `offset` hours ahead of UTC shows at `instant`
dateAt(instant, offset) == calendar[((instant + offset) \div 24) + 1]

\* Intl.DateTimeFormat("sv-SE", {timeZone: "Asia/Tokyo", ...}).format(date):
\* the year, month and day of a Tokyo clock
toJstDateString(date) ==
    LET tokyo == dateAt(date, TokyoOffset)
    IN  <<tokyo.year, tokyo.month, tokyo.day>>

\* Date.prototype.getMonth in a browser whose timezone is `zone`: the month of
\* the local clock, January being 0
getMonth(date, zone) == dateAt(date, zone).month - 1

ClockInputs == [now : Instants, zone : Zones]

InitClock ==
    /\ args \in ClockInputs
    /\ result = <<>>
    /\ AppIdle

\* submitLog's `today`
CallToJstDateString ==
    /\ result = <<>>
    /\ result' = <<[today |-> toJstDateString(args.now)]>>
    /\ UNCHANGED <<args, appVars>>

\* The month loadMapRisk passes to adjustMapRiskScore
CallMapMonth ==
    /\ result = <<>>
    /\ result' = <<[mapMonth |-> getMonth(args.now, args.zone) + 1]>>
    /\ UNCHANGED <<args, appVars>>

NextClock == CallToJstDateString \/ CallMapMonth

SpecClock == InitClock /\ [][NextClock]_vars

\* The calendar date in Tokyo at an instant
TokyoDate(instant) == calendar[((instant + 9) \div 24) + 1]

\* C21: the date key of submitLog and the month the map passes to
\* adjustMapRiskScore are the Asia/Tokyo date and month of the current
\* instant, whatever the browser's timezone is.
C21_TokyoDateAndMonth ==
    result # <<>> =>
        LET tokyo == TokyoDate(args.now)
        IN  /\ "today" \in DOMAIN result[1] =>
                   result[1].today = <<tokyo.year, tokyo.month, tokyo.day>>
            /\ "mapMonth" \in DOMAIN result[1] =>
                   result[1].mapMonth = tokyo.month

-----------------------------------------------------------------------------
(* The location controls: the select, the re-fetch button and geolocation *)

\* The getCurrentPosition calls one behaviour makes
MaxGeoRequests == 2

\* The positions getCurrentPosition can report
Positions == {1, 2}

InitLocation ==
    /\ args = <<>>
    /\ result = <<>>
    /\ month \in AppMonths
    /\ weather = <<>>
    /\ todayRisk = <<>>
    /\ forecast = <<>>
    /\ isLoading = FALSE
    /\ error = "none"
    /\ riskInFlight = 0
    /\ mapRisks = <<>>
    /\ mapLoading = FALSE
    /\ mapError = "none"
    /\ activeMapCityId = "none"
    /\ mapInFlight = 0
    /\ mapUpdatedAt = "none"
    /\ mapResponses = <<>>
    /\ selectedId = "tokyo"
    /\ riskRequests = <<>>
    /\ customLocation = <<>>
    /\ geoLoading = FALSE
    /\ geoRequests = 0
    /\ hasGeolocation \in BOOLEAN
    /\ StoreIdle

\* The id of selectedLocation: options.find(id === selectedId) ?? options[0]
selectedLocationId ==
    IF selectedId \in options THEN selectedId
    ELSE IF customLocation # <<>> THEN CurrentLocationId
    ELSE "tokyo"

\* loadRisk up to its await, as the effect runs it after a handler that
\* changed selectedLocation to the location `id`
EffectStartedFor(id) ==
    /\ isLoading' = TRUE
    /\ error' = "none"
    /\ riskRequests' = Append(riskRequests, [location |-> id, status |-> "pending"])
    /\ riskInFlight' = riskInFlight + 1
    /\ UNCHANGED <<result, month, weather, todayRisk, forecast, mapVars, storeVars>>

\* The re-fetch button: setSelectedId(selectedLocation.id).  The loadRisk
\* effect depends on selectedLocation and runs only when that changed; args
\* records the press.
PressRefetch ==
    /\ riskRequests # <<>>
    /\ args' = [pressed |-> "refetch", selected |-> selectedId]
    /\ selectedId' = selectedLocationId
    /\ IF selectedId' # selectedId
       THEN /\ Len(riskRequests) < MaxRequests
            /\ EffectStartedFor(selectedId')
       ELSE UNCHANGED <<result, month, riskVars, riskRequests, mapVars, storeVars>>
    /\ UNCHANGED geoVars

\* The geolocation button, disabled while geoLoading
UseCurrentLocation ==
    /\ riskRequests # <<>>
    /\ ~geoLoading
    /\ IF ~hasGeolocation
       THEN /\ error' = "geo_unsupported"
            /\ UNCHANGED <<geoLoading, geoRequests>>
       ELSE /\ geoRequests < MaxGeoRequests
            /\ geoLoading' = TRUE
            /\ error' = "none"
            /\ geoRequests' = geoRequests + 1
    /\ UNCHANGED <<args, result, month, weather, todayRisk, forecast, isLoading,
                   riskInFlight, selectedId, riskRequests, customLocation,
                   hasGeolocation, mapVars, storeVars>>

\* The success callback of getCurrentPosition; the custom location is a new
\* object, selectedLocation changes and the loadRisk effect runs
PositionObtained ==
    /\ geoLoading
    /\ Len(riskRequests) < MaxRequests
    /\ \E p \in Positions :
          /\ args' = [position |-> p]
          /\ customLocation' = <<[id |-> CurrentLocationId, position |-> p]>>
    /\ selectedId' = CurrentLocationId
    /\ geoLoading' = FALSE
    /\ EffectStartedFor(CurrentLocationId)
    /\ UNCHANGED <<geoRequests, hasGeolocation>>

\* Mutant: a failed geolocation request falls back to the first default location
PositionFailedFallsBack ==
    /\ geoLoading
    /\ geoLoading' = FALSE
    /\ error' = "geo_failed"
    /\ selectedId' = "tokyo"
    /\ customLocation' = <<>>
    /\ UNCHANGED <<args, result, month, weather, todayRisk, forecast, isLoading,
                   riskInFlight, riskRequests, geoRequests, hasGeolocation,
                   mapVars, storeVars>>

\* The error callback of getCurrentPosition: permission denied, position
\* unavailable, or the 12 second timeout
PositionFailed ==
    /\ geoLoading
    /\ geoLoading' = FALSE
    /\ error' = "geo_failed"
    /\ UNCHANGED <<args, result, month, weather, todayRisk, forecast, isLoading,
                   riskInFlight, selectedId, riskRequests, customLocation,
                   geoRequests, hasGeolocation, mapVars, storeVars>>

NextLocation ==
    \/ MountLoadRisk
    \/ SelectLocation
    \/ PressRefetch
    \/ UseCurrentLocation
    \/ PositionObtained
    \/ PositionFailed
    \/ RiskResponseFulfilled
    \/ RiskResponseRejected

SpecLocation == InitLocation /\ [][NextLocation]_vars

\* C22: a failed geolocation request sets an error message, returns
\* geoLoading to false, leaves the selected and the custom location unchanged
\* and issues neither a geolocation request nor a weather fetch; a successful
\* one makes the obtained position the custom and the selected location.
C22_GeolocationOutcome ==
    [][/\ PositionFailed =>
             /\ error' = "geo_failed"
             /\ geoLoading' = FALSE
             /\ selectedId' = selectedId
             /\ customLocation' = customLocation
             /\ geoRequests' = geoRequests
             /\ riskRequests' = riskRequests
       /\ PositionObtained =>
             /\ customLocation' # <<>>
             /\ customLocation'[1].position = args'.position
             /\ selectedId' = customLocation'[1].id
             /\ selectedLocationId' = customLocation'[1].id
             /\ geoLoading' = FALSE]_vars

\* A request failed while a location other than the first default one was
\* selected and a custom location existed
C22_Witness ==
    /\ error = "geo_failed"
    /\ ~geoLoading
    /\ customLocation # <<>>
    /\ selectedId = "osaka"

\* The outstanding loadRisk calls
Outstanding == { i \in DOMAIN riskRequests : riskRequests[i].status = "pending" }

\* C29: isLoading is true whenever a loadRisk call is outstanding, also when
\* two calls overlap, and false once every call made has settled.
C29_LoadingWhileOutstanding ==
    /\ Outstanding # {} => isLoading
    /\ (riskRequests # <<>> /\ Outstanding = {}) => ~isLoading

\* C30: pressing the re-fetch button with a location selected issues a new
\* fetch for that location and leaves the selection unchanged.
C30_RefetchFetchesAgain ==
    [][(PressRefetch /\ Len(riskRequests) < MaxRequests) =>
          /\ selectedId' = selectedId
          /\ Len(riskRequests') = Len(riskRequests) + 1
          /\ riskRequests'[Len(riskRequests')] =
                 [location |-> selectedId, status |-> "pending"]]_vars

-----------------------------------------------------------------------------
(* More claims about adjustMapRiskScore, checked under SpecMapAdjust *)

\* The month scale as the claim states it, in hundredths
StatedMonthScale(m) ==
    IF m \in {2, 3, 4} THEN 100
    ELSE IF m = 5 THEN 78
    ELSE IF m \in {8, 9, 10} THEN 55
    ELSE 35

\* C23: adjustMapRiskScore returns a value between min(rawScore, 14) and
\* max(rawScore, 14), is non-decreasing in rawScore, uses the month scale 1.0
\* for months 2-4, 0.78 for month 5, 0.55 for months 8-10 and 0.35 otherwise,
\* and returns rawScore for suitability 1 in months 2-4.
C23_BetweenRawAndBaseline ==
    Called =>
        /\ Min2(args.rawScore, 14) <= result[1]
        /\ result[1] <= Max2(args.rawScore, 14)
        /\ args.rawScore < 100 =>
               result[1] <= adjustMapRiskScore(args.rawScore + 1, args.suitability,
                                               args.month)
        /\ monthScale(args.month) = StatedMonthScale(args.month)
        /\ (args.suitability = 100 /\ args.month \in {2, 3, 4}) =>
               result[1] = args.rawScore

\* Off season a fully suitable city is pulled from 80 toward the baseline,
\* and in season it keeps its raw score
C23_Witness ==
    /\ Called
    /\ args.suitability = 100
    /\ args.rawScore = 80
    /\ \/ args.month = 12 /\ result[1] = 37
       \/ args.month = 3 /\ result[1] = 80

-----------------------------------------------------------------------------
(* weeklyAverage as a pure function of the history *)

\* Severities of the form's range input, 0 to 10
WeekSeverities == {0, 1, 10}

MaxWeekEntries == 8

\* Histories of n entries, one per day, newest first
WeekInputs(n) ==
    { [i \in 1..n |-> [date |-> n + 1 - i, severity |-> sev[i],
                       tookMedicine |-> FALSE, memo |-> <<>>]] :
          sev \in [1..n -> WeekSeverities] }

InitWeek ==
    /\ \E n \in 0..MaxWeekEntries : args \in WeekInputs(n)
    /\ result = <<>>
    /\ AppIdle

CallWeeklyAverage ==
    /\ result = <<>>
    /\ result' = <<weeklyAverage(args)>>
    /\ UNCHANGED <<args, appVars>>

NextWeek == CallWeeklyAverage

SpecWeek == InitWeek /\ [][NextWeek]_vars

\* The sum of the severities of the first n entries
FirstSeverities(list, n) ==
    LET RECURSIVE upTo(_)
        upTo(k) == IF k = 0 THEN 0 ELSE list[k].severity + upTo(k - 1)
    IN  upTo(n)

\* C24: the weekly average is null iff the history is empty; otherwise it is
\* the mean severity of the first min(7, n) entries rounded to one decimal,
\* whatever the entries from position 7 on, and lies in [0, 10].
C24_WeeklyAverage ==
    Called =>
        LET r == result[1]
        IN  /\ r = <<>> <=> Len(args) = 0
            /\ Len(args) > 0 =>
                  LET n == Min2(7, Len(args))
                      sum == FirstSeverities(args, n)
                  IN  /\ Len(r) = 1
                      /\ 2 * n * r[1] - 20 * sum \in (0 - n)..n
                      /\ r = weeklyAverage(SubSeq(args, 1, n))
                      /\ r[1] \in 0..100

\* Eight entries with severities 1, 0, 0, 0, 0, 0, 0, 10: the average is 0.1,
\* the eighth entry not counted.
C24_Witness ==
    /\ Called
    /\ Len(args) = 8
    /\ [i \in 1..8 |-> args[i].severity] = <<1, 0, 0, 0, 0, 0, 0, 10>>
    /\ result[1] = <<1>>

-----------------------------------------------------------------------------
(* One map load, city request by city request *)

\* The map of this specification has the first MaxOrderCities cities of
\* mapCities
MaxOrderCities == 4

orderCities == SubSeq(mapCities, 1, MaxOrderCities)

\* The points the cities can be fulfilled with
orderPoints ==
    [m \in AppMonths |->
        [i \in DOMAIN mapCities |->
            { cityRiskPoint(mapCities[i], current, m) : current \in MapCurrents }]]

\* Mutant: the results kept in the order the requests settled
settledInCompletionOrder(responses, n) ==
    [k \in 1..n |-> responses[k].outcome]

\* The array Promise.allSettled resolves to: one result per city, in the
\* order of the city list, whatever the order the requests settled in.  A
\* result is <<>> when rejected and <<point>> when fulfilled.
settledInCityOrder(responses, n) ==
    [i \in 1..n |->
        LET k == CHOOSE k \in DOMAIN responses : responses[k].city = i
        IN  responses[k].outcome]

\* settled.filter(fulfilled).map(value).sort(by score descending)
succeededOf(settled) ==
    LET fulfilled == SelectSeq(settled, LAMBDA r : r # <<>>)
    IN  SortByScoreDesc([k \in DOMAIN fulfilled |-> fulfilled[k][1]])

InitMapOrder == Init

\* The loadMapRisk effect of the first commit
MountLoadMapRisk ==
    /\ mapRisks = <<>>
    /\ mapError = "none"
    /\ LoadMapStart

\* The request of one city settles: rejected (or not ok), or fulfilled with
\* the point computed from its response
CityRequestSettled ==
    /\ mapInFlight > 0
    /\ \E i \in DOMAIN orderCities :
          /\ \A k \in DOMAIN mapResponses : mapResponses[k].city # i
          /\ \E outcome \in {<<>>} \cup { <<point>> : point \in orderPoints[month][i] } :
                mapResponses' = Append(mapResponses, [city |-> i, outcome |-> outcome])
    /\ UNCHANGED <<args, result, month, riskVars, mapRisks, mapLoading, mapError,
                   activeMapCityId, mapInFlight, mapUpdatedAt, selectVars, storeVars>>

\* Every request has settled: loadMapRisk continues after its await
AllCityRequestsSettled ==
    /\ mapInFlight > 0
    /\ Len(mapResponses) = Len(orderCities)
    /\ \E now \in Times :
          LET settled == settledInCityOrder(mapResponses, Len(orderCities))
              succeeded == succeededOf(settled)
          IN  /\ args' = [failed |-> { i \in DOMAIN settled : settled[i] = <<>> }]
              /\ IF Len(succeeded) = 0
                 THEN /\ mapError' = "map_failed"
                      /\ UNCHANGED <<mapRisks, activeMapCityId, mapUpdatedAt>>
                 ELSE /\ mapRisks' = succeeded
                      /\ mapUpdatedAt' = now
                      /\ activeMapCityId' =
                            IF /\ activeMapCityId # "none"
                               /\ \E k \in DOMAIN succeeded :
                                     succeeded[k].id = activeMapCityId
                            THEN activeMapCityId
                            ELSE succeeded[1].id
                      /\ mapError' = IF Len(succeeded) < Len(orderCities)
                                     THEN "map_partial" ELSE mapError
    /\ mapLoading' = FALSE
    /\ mapInFlight' = mapInFlight - 1
    /\ UNCHANGED <<result, month, riskVars, mapResponses, selectVars, storeVars>>

NextMapOrder ==
    \/ MountLoadMapRisk
    \/ CityRequestSettled
    \/ AllCityRequestsSettled

SpecMapOrder == InitMapOrder /\ [][NextMapOrder]_vars

\* The position of a city in the city list
CityIndex(id) == CHOOSE i \in DOMAIN mapCities : mapCities[i].id = id

\* The points the settled requests were fulfilled with
FulfilledPoints ==
    { mapResponses[k].outcome[1] :
          k \in { j \in DOMAIN mapResponses : mapResponses[j].outcome # <<>> } }

\* C25: nothing is set before every request has settled; then mapRisks holds
\* exactly the fulfilled cities' points, sorted by score descending, cities
\* of equal score in the order of the city list, whatever the order the
\* responses completed in; its first element has the maximum score.
C25_OrderIndependent ==
    /\ (mapInFlight > 0) => (mapRisks = <<>> /\ mapLoading)
    /\ (mapInFlight = 0 /\ Len(mapResponses) = Len(orderCities)
           /\ FulfilledPoints # {}) =>
          /\ { mapRisks[k] : k \in DOMAIN mapRisks } = FulfilledPoints
          /\ Len(mapRisks) = Cardinality(FulfilledPoints)
          /\ \A k \in 1..(Len(mapRisks) - 1) :
                \/ mapRisks[k].score > mapRisks[k + 1].score
                \/ /\ mapRisks[k].score = mapRisks[k + 1].score
                   /\ CityIndex(mapRisks[k].id) < CityIndex(mapRisks[k + 1].id)
          /\ \A k \in DOMAIN mapRisks : mapRisks[1].score >= mapRisks[k].score

\* Cities of equal score whose requests settled against the order of the
\* city list
C25_Witness ==
    /\ mapInFlight = 0
    /\ Len(mapRisks) >= 2
    /\ \E k \in 1..(Len(mapRisks) - 1) :
          /\ mapRisks[k].score = mapRisks[k + 1].score
          /\ \E a, b \in DOMAIN mapResponses :
                /\ a < b
                /\ mapResponses[a].city = CityIndex(mapRisks[k + 1].id)
                /\ mapResponses[b].city = CityIndex(mapRisks[k].id)

-----------------------------------------------------------------------------
(* The forecast of loadRisk as a pure function of the weather response *)

\* new Date("YYYY-MM-DD") for the calendar date numbered k: a date-only
\* string is read as midnight UTC of that date
parseDate(k) == 24 * (k - 1)

\* The first dates a daily array starts with: 2026-01-31 and 2026-02-01
ForecastStarts == {2, 3}

\* The values the three daily arrays can carry at one index; undefined also
\* stands for an array shorter than daily.time
DayValues ==
    { [temperature_2m_max |-> Num(243), wind_speed_10m_max |-> Num(89),
       precipitation_probability_max |-> Num(300)],
      [temperature_2m_max |-> Undefined, wind_speed_10m_max |-> Undefined,
       precipitation_probability_max |-> Num(400)],
      [temperature_2m_max |-> Null, wind_speed_10m_max |-> Num(89),
       precipitation_probability_max |-> Undefined],
      [temperature_2m_max |-> Num(243), wind_speed_10m_max |-> Null,
       precipitation_probability_max |-> Null],
      [temperature_2m_max |-> Undefined, wind_speed_10m_max |-> Undefined,
       precipitation_probability_max |-> Undefined] }

\* The current snapshot the forecast falls back to
forecastSnapshot ==
    [temperature |-> 200, humidity |-> 400, wind |-> 50, precipitation |-> 0,
     pm10 |-> 320, pm25 |-> 150]

ForecastInputs ==
    UNION { [start : ForecastStarts, zone : Zones, values : [1..n -> DayValues]] :
                n \in 0..MaxForecastDays }

\* The entry of the daily arrays at index i, with the month
\* new Date(date).getMonth() + 1 gives in the browser's timezone
dailyEntry(input, i) ==
    LET k == input.start + i - 1
        v == input.values[i]
    IN  [time |-> <<calendar[k].year, calendar[k].month, calendar[k].day>>,
         month |-> getMonth(parseDate(k), input.zone) + 1,
         temperature_2m_max |-> v.temperature_2m_max,
         wind_speed_10m_max |-> v.wind_speed_10m_max,
         precipitation_probability_max |-> v.precipitation_probability_max]

InitForecast ==
    /\ args \in ForecastInputs
    /\ result = <<>>
    /\ AppIdle

\* forecastData of loadRisk
CallForecast ==
    /\ result = <<>>
    /\ result' = <<[i \in DOMAIN args.values |->
                       forecastDayOf(dailyEntry(args, i), forecastSnapshot)]>>
    /\ UNCHANGED <<args, appVars>>

NextForecast == CallForecast

SpecForecast == InitForecast /\ [][NextForecast]_vars

\* C26: the forecast has one ForecastDay per daily time point, in order;
\* each is estimateRisk for that day's date, with the day's max temperature
\* and max wind or, when missing, the snapshot's, precipitation present iff
\* the day's probability is at least 40, and the snapshot's humidity, pm10
\* and pm25.
C26_ForecastPerDay ==
    Called =>
        /\ Len(result[1]) = Len(args.values)
        /\ \A i \in DOMAIN args.values :
              LET v == args.values[i]
                  date == calendar[args.start + i - 1]
                  r == estimateRisk(
                           [month         |-> date.month,
                            temperature   |-> OrFallback(v.temperature_2m_max,
                                                         forecastSnapshot.temperature),
                            humidity      |-> forecastSnapshot.humidity,
                            wind          |-> OrFallback(v.wind_speed_10m_max,
                                                         forecastSnapshot.wind),
                            precipitation |->
                                IF OrFallback(v.precipitation_probability_max, 0) >= 400
                                THEN 10 ELSE 0,
                            pm10          |-> forecastSnapshot.pm10,
                            pm25          |-> forecastSnapshot.pm25])
              IN  /\ result[1][i].date = <<date.year, date.month, date.day>>
                  /\ result[1][i].score = r.score
                  /\ result[1][i].level = r.level

-----------------------------------------------------------------------------
(* Startup, the symptom log and the checklist together *)

InitStore ==
    /\ FirstRender
    /\ \E session \in PriorLogSessions :
          /\ storedLogs = session.stored
          /\ submittedDates = session.submitted
    /\ storedActions \in PriorActionRecords

NextStore ==
    \/ Mount
    \/ Rerender
    \/ AdvanceDay
    \/ SubmitLog
    \/ ToggleAction

SpecStore == InitStore /\ [][NextStore]_vars

\* A stored log record holding a list
WellFormedLogs(stored) == stored.kind = "json" /\ stored.value.kind = "list"

\* A stored checklist record holding an object with the five keys, each a
\* boolean
WellFormedActions(stored) ==
    /\ stored.kind = "json"
    /\ stored.value.kind = "object"
    /\ DOMAIN stored.value.fields = { actionItems[i] : i \in DOMAIN actionItems }
    /\ \A k \in DOMAIN stored.value.fields : stored.value.fields[k] \in BOOLEAN

\* C27: the render that ends the startup shows what a well-formed store
\* held, and whenever no update waits for a render (after startup and after
\* every submitLog and toggleAction) the stored log record and the stored
\* checklist record are the in-memory logs and checklist.
C27_WriteThrough ==
    [][/\ Rerender =>
             /\ WellFormedLogs(args.storedLogs) => logs' = args.storedLogs.value
             /\ WellFormedActions(args.storedActions) =>
                    JsonObject(actions') = args.storedActions.value
       /\ Settled' =>
             /\ storedLogs' = stringify(logs')
             /\ storedActions' = stringify(JsonObject(actions'))]_vars

\* A page started from thirty stored entries and a stored checklist, with a
\* submission and a toggle made since
C27_Witness ==
    /\ Settled
    /\ "date" \in DOMAIN args
    /\ Len(logs.items) = LogLimit
    /\ logs.items[1].date = MaxDay
    /\ actions.shower
    /\ actions.mask
    /\ storedLogs = stringify(logs)
    /\ storedActions = stringify(JsonObject(actions))

-----------------------------------------------------------------------------
(* The map and its active city *)

InitMapCity == Init

\* A marker of the map or a button of the city list, both drawn from mapRisks
SelectMapCity ==
    /\ \E k \in DOMAIN mapRisks : activeMapCityId' = mapRisks[k].id
    /\ UNCHANGED <<args, result, month, riskVars, mapRisks, mapLoading, mapError,
                   mapInFlight, mapUpdatedAt, mapResponses, selectVars, storeVars>>

NextMapCity ==
    \/ LoadMapStart
    \/ LoadMapSettled
    \/ SelectMapCity

SpecMapCity == InitMapCity /\ [][NextMapCity]_vars

\* activeMapCityId is null with no city shown, or the id of a city shown
ActiveCityShown ==
    \/ activeMapCityId = "none" /\ mapRisks = <<>>
    \/ \E k \in DOMAIN mapRisks : mapRisks[k].id = activeMapCityId

\* C28: activeMapCityId is null (only before the first successful map load)
\* or the id of a city in mapRisks; a successful load keeps the active city
\* when it is among the succeeded cities and otherwise selects the
\* highest-scoring succeeded city.
C28_ActiveCityInMapRisks ==
    /\ []ActiveCityShown
    /\ [][(LoadMapSettled /\ args'.failed # DOMAIN mapCities) =>
             /\ (\E k \in DOMAIN mapRisks' : mapRisks'[k].id = activeMapCityId) =>
                    activeMapCityId' = activeMapCityId
             /\ (\A k \in DOMAIN mapRisks' : mapRisks'[k].id # activeMapCityId) =>
                    /\ activeMapCityId' = mapRisks'[1].id
                    /\ \A k \in DOMAIN mapRisks' :
                          mapRisks'[1].score >= mapRisks'[k].score]_vars

\* A load in which two cities failed has kept an active city that is not
\* the top one
C28_Witness ==
    /\ "failed" \in DOMAIN args
    /\ ~mapLoading
    /\ args.failed = {2, 11}
    /\ Len(mapRisks) = Len(mapCities) - 2
    /\ activeMapCityId # mapRisks[1].id

=============================================================================
